---- MODULE Spec2Model ----
(***************************************************************************)
(* A model of the S-1 prospector pipeline: the stockholder-table           *)
(* extraction of src/edgar.py, the orchestration loop of src/main.py and   *)
(* the roster matcher of src/affinity.py. Besides the specifications of    *)
(* these loops there is one specification per function checked on its own: *)
(* a single call of classify_entity, of is_valid_investor_name and of the   *)
(* field extraction over the cells of one row.                              *)
(*                                                                         *)
(* Python strings are TLA+ strings; TLC evaluates Len, SubSeq and \o on    *)
(* them, so every text operation below works character by character as    *)
(* the Python code and its regular expressions do.                         *)
(***************************************************************************)
EXTENDS Integers, Sequences, FiniteSets, TLC

VARIABLES
    nm_raw,         \* NameNormalizer: the raw first-cell text
    nm_hist,        \* NameNormalizer: successive results of the clean-up
    doc,            \* extract_stockholder_table: the tables of the document
    ti,             \* extract_stockholder_table: index of the next table
    stockholders,   \* extract_stockholder_table: the list being built
    xpc,            \* extract_stockholder_table: "idle" | "loop" | "break" | "returned"
    passes,         \* extract_stockholder_table: what each pass of the loop did
    filings,        \* main: the filing descriptors of the run
    fi,             \* main: index of the filing being processed
    all_investors,  \* main: the investor records collected so far
    mpc,            \* main: "idle" | "start" | "loop" | "save" | "done" | "fatal"
    files,          \* main: the files written so far, [path, rows]
    main_return,    \* main: the value returned, NoValue before the return
    enrich_foundations, \* main: whether ENRICH_FOUNDATIONS enables the enrichment
    ei,             \* main: index of the next foundation to look up
    lookups,        \* the calls of lookup_foundation_officers, [foundation_name, officers]
    find_match_calls, \* the calls of find_match made so far, [investor_name, result]
    organizations,  \* AffinityClient: the cached organizations, in insertion order
    persons,        \* AffinityClient: the cached persons, in insertion order
    investor_name,  \* find_match: the name looked up
    threshold,      \* find_match: the threshold of the call
    best_match,     \* find_match: the best match so far, NoMatch for None
    best_score,     \* find_match: its score
    mi,             \* find_match: index of the next entry of the pool scanned
    fpc,            \* find_match: "idle" | "orgs" | "persons" | "returned"
    lst,            \* load_fundraising_list: the list found, NoValue for None
    list_entries,   \* load_fundraising_list: the entries the list serves
    li,             \* load_fundraising_list: index of the next entry
    lpc,            \* load_fundraising_list: "idle" | "start" | "loop" | "loaded"
    arg_name,       \* a single call: the name passed to the function called
    arg_cells,      \* a single call: the cells of the row passed to it
    arg_page,       \* a single call: the index page passed to it
    ret,            \* a single call: the value returned
    ppc             \* a single call: "idle" | "call" | "returned"

normVars == <<nm_raw, nm_hist>>
extVars  == <<doc, ti, stockholders, xpc, passes>>
mainVars == <<filings, fi, all_investors, mpc, files, main_return,
              enrich_foundations, ei, lookups>>
matchVars == <<find_match_calls, organizations, persons, investor_name,
               threshold, best_match, best_score, mi, fpc>>
pureVars == <<arg_name, arg_cells, arg_page, ret, ppc>>
loadVars == <<lst, list_entries, li, lpc>>
vars     == <<nm_raw, nm_hist, doc, ti, stockholders, xpc, passes,
              filings, fi, all_investors, mpc, files, main_return,
              enrich_foundations, ei, lookups,
              find_match_calls, organizations, persons, investor_name,
              threshold, best_match, best_score, mi, fpc,
              lst, list_entries, li, lpc,
              arg_name, arg_cells, arg_page, ret, ppc>>

\* no value returned yet
NoValue == [kind |-> "no value"]

\* no single call is modelled
\* load_fundraising_list is not running
LoadIdle == lst = NoValue /\ list_entries = <<>> /\ li = 0 /\ lpc = "idle"

PureIdle ==
    /\ arg_name = "" /\ arg_cells = <<>> /\ arg_page = NoValue
    /\ ret = NoValue /\ ppc = "idle"

-----------------------------------------------------------------------------
(* Characters and strings                                                   *)

\* s[i-1:j], Python's slice: positions past the end are left out
Sub(s, i, j) ==
    IF i > Len(s) \/ i > j THEN ""
    ELSE SubSeq(s, i, IF j > Len(s) THEN Len(s) ELSE j)

At(s, i) == Sub(s, i, i)
From(s, i) == Sub(s, i, Len(s))

Digits == {"0", "1", "2", "3", "4", "5", "6", "7", "8", "9"}
Spaces == {" ", "\t", "\n"}
UpperAlpha == "ABCDEFGHIJKLMNOPQRSTUVWXYZ"
LowerAlpha == "abcdefghijklmnopqrstuvwxyz"
UpperSet == {At(UpperAlpha, i) : i \in 1..26}
LowerSet == {At(LowerAlpha, i) : i \in 1..26}

IsDigit(c) == c \in Digits
IsSpace(c) == c \in Spaces
IsAlpha(c) == c \in UpperSet \cup LowerSet

LowerChar(c) ==
    IF c \in UpperSet
    THEN At(LowerAlpha, CHOOSE i \in 1..26 : At(UpperAlpha, i) = c)
    ELSE c

UpperChar(c) ==
    IF c \in LowerSet
    THEN At(UpperAlpha, CHOOSE i \in 1..26 : At(LowerAlpha, i) = c)
    ELSE c

\* str.lower() and str.upper(), character by character (the string is
\* halved at each step to keep the evaluation shallow on long texts)
RECURSIVE lower(_)
lower(s) ==
    IF Len(s) <= 1 THEN LowerChar(s)
    ELSE lower(Sub(s, 1, Len(s) \div 2)) \o lower(From(s, Len(s) \div 2 + 1))

RECURSIVE upper(_)
upper(s) ==
    IF Len(s) <= 1 THEN UpperChar(s)
    ELSE upper(Sub(s, 1, Len(s) \div 2)) \o upper(From(s, Len(s) \div 2 + 1))

\* sub in s  (Python's `in` on strings)
Contains(s, sub) ==
    \E i \in 1..(Len(s) - Len(sub) + 1) : Sub(s, i, i + Len(sub) - 1) = sub

startswith(s, p) == Len(p) <= Len(s) /\ Sub(s, 1, Len(p)) = p
endswith(s, p) == Len(p) <= Len(s) /\ Sub(s, Len(s) - Len(p) + 1, Len(s)) = p

\* number of leading characters of s that lie in the set cs
RECURSIVE Run(_, _)
Run(s, cs) == IF s # "" /\ At(s, 1) \in cs THEN 1 + Run(From(s, 2), cs) ELSE 0

\* number of trailing characters of s that lie in the set cs
RECURSIVE RunBack(_, _)
RunBack(s, cs) ==
    IF s # "" /\ At(s, Len(s)) \in cs
    THEN 1 + RunBack(Sub(s, 1, Len(s) - 1), cs)
    ELSE 0

\* str.strip()
strip(s) == Sub(s, Run(s, Spaces) + 1, Len(s) - RunBack(s, Spaces))

\* str.replace(c, '') for a single character c
RECURSIVE RemoveChar(_, _)
RemoveChar(s, c) ==
    IF s = "" THEN ""
    ELSE (IF At(s, 1) = c THEN "" ELSE At(s, 1)) \o RemoveChar(From(s, 2), c)

-----------------------------------------------------------------------------
(* NameNormalizer: the clean-up of the name cell                            *)

\* re.sub(r'\s+', ' ', s)
RECURSIVE CollapseSpaces(_)
CollapseSpaces(s) ==
    IF s = "" THEN ""
    ELSE IF IsSpace(At(s, 1))
         THEN " " \o CollapseSpaces(From(s, Run(s, Spaces) + 1))
         ELSE At(s, 1) \o CollapseSpaces(From(s, 2))

\* length of the match of \(\d+\) at the start of s, 0 when there is none
FootnoteLen(s) ==
    IF s # "" /\ At(s, 1) = "("
    THEN LET d == Run(From(s, 2), Digits)
         IN IF d >= 1 /\ Len(s) >= d + 2 /\ At(s, d + 2) = ")" THEN d + 2 ELSE 0
    ELSE 0

\* re.sub(r'\(\d+\)', '', s)
RECURSIVE StripFootnotes(_)
StripFootnotes(s) ==
    IF s = "" THEN ""
    ELSE IF FootnoteLen(s) > 0
         THEN StripFootnotes(From(s, FootnoteLen(s) + 1))
         ELSE At(s, 1) \o StripFootnotes(From(s, 2))

\* re.sub(r'\([a-z]\)', '', s, flags=re.I)
RECURSIVE StripLetterMarks(_)
StripLetterMarks(s) ==
    IF s = "" THEN ""
    ELSE IF Len(s) >= 3 /\ At(s, 1) = "(" /\ IsAlpha(At(s, 2)) /\ At(s, 3) = ")"
         THEN StripLetterMarks(From(s, 4))
         ELSE At(s, 1) \o StripLetterMarks(From(s, 2))

\* the four clean-up statements applied to name_cell
normalize(s) == strip(StripLetterMarks(StripFootnotes(CollapseSpaces(s))))

\* cells[0].get_text().strip() followed by the clean-up
clean_name(cell) == normalize(strip(cell))

-----------------------------------------------------------------------------
(* InvestorNameValidator: is_valid_investor_name                            *)

\* number of leading characters of s that do not lie in the set cs
RECURSIVE RunNot(_, _)
RunNot(s, cs) == IF s # "" /\ At(s, 1) \notin cs THEN 1 + RunNot(From(s, 2), cs) ELSE 0

\* str.split(): the maximal runs of non-whitespace characters
RECURSIVE split(_)
split(s) ==
    LET t == From(s, Run(s, Spaces) + 1)
        w == RunNot(t, Spaces)
    IN IF t = "" THEN <<>> ELSE <<Sub(t, 1, w)>> \o split(From(t, w + 1))

\* str.rstrip(':')
rstrip_colon(s) == Sub(s, 1, Len(s) - RunBack(s, {":"}))

\* re.sub removes every leftmost non-overlapping match; the ...Len operators
\* give the length of the match at the start of s, 0 when there is none
RECURSIVE SubPctParen(_)
RECURSIVE SubMoreThan(_)

\* match of \s*\([\d\.]+%\)\s* at the start of s
PctParenLen(s) ==
    LET w == Run(s, Spaces)
        t == From(s, w + 1)
        d == Run(From(t, 2), Digits \cup {"."})
        u == From(t, d + 4)
    IN IF t # "" /\ At(t, 1) = "(" /\ d >= 1 /\ Sub(t, d + 2, d + 3) = "%)"
       THEN w + d + 3 + Run(u, Spaces)
       ELSE 0

\* re.sub(r'\s*\([\d\.]+%\)\s*', '', s)
SubPctParen(s) ==
    IF s = "" THEN ""
    ELSE IF PctParenLen(s) > 0
         THEN SubPctParen(From(s, PctParenLen(s) + 1))
         ELSE At(s, 1) \o SubPctParen(From(s, 2))

\* match of \s*\(more than \d+%\).* at the start of s ("." stops at a newline)
MoreThanLen(s) ==
    LET w == Run(s, Spaces)
        t == From(s, w + 1)
        d == Run(From(t, 12), Digits)
        u == From(t, d + 14)
    IN IF startswith(t, "(more than ") /\ d >= 1 /\ Sub(t, d + 12, d + 13) = "%)"
       THEN w + d + 13 + RunNot(u, {"\n"})
       ELSE 0

\* re.sub(r'\s*\(more than \d+%\).*', '', s)
SubMoreThan(s) ==
    IF s = "" THEN ""
    ELSE IF MoreThanLen(s) > 0
         THEN SubMoreThan(From(s, MoreThanLen(s) + 1))
         ELSE At(s, 1) \o SubMoreThan(From(s, 2))

exact_rejects == {
    "directors and executive officers",
    "executive officers and directors",
    "principal shareholders",
    "common stock",
    "class a common stock",
    "class b common stock",
    "preferred stock" }

section_headers == {
    "use of proceeds", "plan of distribution", "risk factors",
    "legal matters", "experts", "underwriting", "indemnification",
    "available information", "financial statements", "part i",
    "part ii", "item ", "where you can find", "material u.s.",
    "certain relationships", "related transactions", "description of",
    "dilution", "capitalization", "executive compensation",
    "security ownership", "principal stockholders", "selling stockholders",
    "shares eligible", "tax considerations", "erisa considerations",
    "validity of", "legal proceedings", "market for", "dividend policy",
    "selected financial", "properties", "directors and officers",
    "table of contents", "prospectus summary", "the offering",
    "corporate governance", "related party", "beneficial owner",
    "5% or greater", "information not required", "limitation on",
    "release of funds", "nasdaq", "nyse", "trading symbol",
    "disclosure of", "commission position", "index to", "changes in",
    "disagreements with", "accountants on", "accounting and",
    "federal tax", "non-u.s. holders", "securities act",
    "forward-looking", "summary of", "overview", "background",
    "how to", "what is", "why we", "our business", "our company",
    "financial condition", "results of operations", "liquidity",
    "critical accounting", "recent developments", "industry",
    "competition", "intellectual property", "government regulation",
    "employees", "facilities",
    "principal shareholders", "more than 5%", "class a", "class b",
    "common stock", "preferred stock", "series a", "series b" }

\* the em dash of the source list is written here as the character "~",
\* which stands for it in the texts of this model
bad_starts == {
    "name", "total", "(", "_", "*", "-", "~", "note", "see ",
    "the ", "our ", "we ", "an ", "a ", "all executive", "all directors",
    "officers and directors as a group", "executive officers and directors",
    "item", "part", "section", "article", "exhibit", "schedule",
    "index", "table", "summary", "overview", "introduction",
    "directors and", "executive officers" }

bad_endings == {
    "statements", "information", "considerations", "matters",
    "disclosure", "liability", "liabilities" }

entity_indicators == {
    "llc", "llp", "l.l.c", "l.p.", " lp", "inc", "corp", "corporation",
    "fund", "capital", "partners", "venture", "trust", "holdings",
    "management", "advisors", "investment", "equity", "group",
    "foundation", "endowment", "family", "associates", "asset",
    "securities", "limited", "ltd", "company", "co.", " gp",
    "partnership" }

\* the alternatives of (Ph\.?D|M\.?D|M\.?B\.?A|J\.?D|CPA|CFA), lower-cased
credential_forms == {
    "phd", "ph.d", "md", "m.d", "mba", "m.ba", "mb.a", "m.b.a",
    "jd", "j.d", "cpa", "cfa" }

\* \w of the regular expressions
IsWord(c) == IsAlpha(c) \/ IsDigit(c) \/ c = "_"

\* re.search(r'\b(Ph\.?D|...|CFA)\b', name, re.I)
has_credentials(name) ==
    LET l == lower(name)
    IN \E f \in credential_forms :
         \E i \in 1..(Len(l) - Len(f) + 1) :
            /\ Sub(l, i, i + Len(f) - 1) = f
            /\ (i = 1 \/ ~IsWord(At(l, i - 1)))
            /\ (i + Len(f) - 1 = Len(l) \/ ~IsWord(At(l, i + Len(f))))

\* re.search(r'\d+\.?\d*%', name)
has_embedded_pct(name) ==
    \E k \in 2..Len(name) :
        /\ At(name, k) = "%"
        /\ \/ IsDigit(At(name, k - 1))
           \/ (k >= 3 /\ At(name, k - 1) = "." /\ IsDigit(At(name, k - 2)))

\* re.match(r'^[\d\s\.\,\%\$\(\)\-]+$', name)
only_numbers_or_symbols(name) ==
    LET cls == Digits \cup Spaces \cup {".", ",", "%", "$", "(", ")", "-"}
    IN name # "" /\ Run(name, cls) = Len(name)

\* w[0].isupper() and not w.isupper(), for a word w of split()
is_capitalized_word(w) ==
    /\ At(w, 1) \in UpperSet
    /\ \E i \in 1..Len(w) : At(w, i) \in LowerSet

any_digit(name) == \E i \in 1..Len(name) : IsDigit(At(name, i))

\* the loop over bad_starts without its exception for "as a group" rows
bad_start_check_no_exception(name, name_lower) ==
    IF \E start \in bad_starts : startswith(name_lower, start)
    THEN "reject"
    ELSE "next"

\* the decision taken by the loop over bad_starts: "accept", "reject", or
\* "next" when no prefix applies
bad_start_check(name, name_lower) ==
    IF \E start \in bad_starts : startswith(name_lower, start)
    THEN IF Contains(name_lower, "as a group") /\ any_digit(name)
         THEN "accept" ELSE "reject"
    ELSE "next"

\* the chain with the prefix loop ahead of the loop over section_headers
validator_decision_prefix_first(name) ==
    LET name_lower == strip(lower(name))
        name_upper == strip(upper(name))
        words == split(name)
        name_no_pct ==
            rstrip_colon(strip(SubMoreThan(strip(SubPctParen(name_lower)))))
        has_entity_indicator ==
            \E ind \in entity_indicators : Contains(name_lower, ind)
        capitalized_words ==
            Cardinality({i \in 1..Len(words) : is_capitalized_word(words[i])})
        looks_like_person ==
            /\ 2 <= Len(words) /\ Len(words) <= 5
            /\ capitalized_words >= 2
            /\ name # name_upper
        decided(value, check) == [value |-> value, check |-> check]
    IN IF Len(name) < 3 \/ Len(name) > 150 THEN decided(FALSE, 1)
       ELSE IF name = name_upper /\ Len(words) > 4 THEN decided(FALSE, 2)
       ELSE IF name_no_pct \in exact_rejects THEN decided(FALSE, 3)
       ELSE IF bad_start_check(name, name_lower) # "next"
            THEN decided(bad_start_check(name, name_lower) = "accept", 5)
       ELSE IF \E header \in section_headers : Contains(name_lower, header)
            THEN decided(FALSE, 4)
       ELSE IF only_numbers_or_symbols(name) THEN decided(FALSE, 6)
       ELSE IF FootnoteLen(name) > 0 \/ At(name, 1) = "*" THEN decided(FALSE, 7)
       ELSE IF \E ending \in bad_endings : endswith(name_lower, ending)
            THEN decided(FALSE, 8)
       ELSE IF has_embedded_pct(name)
               /\ (has_entity_indicator \/ looks_like_person
                   \/ has_credentials(name))
            THEN decided(TRUE, 9)
       ELSE IF has_entity_indicator \/ looks_like_person \/ has_credentials(name)
            THEN decided(TRUE, 10)
       ELSE IF Len(words) >= 2 /\ Len(words) <= 4
               /\ \A i \in 1..Len(words) : At(words[i], 1) \in UpperSet
            THEN decided(TRUE, 11)
       ELSE decided(FALSE, 12)

\* the decision of is_valid_investor_name and the check that took it, the
\* checks numbered in the order of the code: 1 length, 2 upper-case heading,
\* 3 exact phrase, 4 section substring, 5 prefix, 6 digits and symbols only,
\* 7 footnote start, 8 section ending, 9 embedded percentage, 10 entity or
\* person shape, 11 capitalized words, 12 the final return
validator_decision(name) ==
    LET name_lower == strip(lower(name))
        name_upper == strip(upper(name))
        words == split(name)
        name_no_pct ==
            rstrip_colon(strip(SubMoreThan(strip(SubPctParen(name_lower)))))
        has_entity_indicator ==
            \E ind \in entity_indicators : Contains(name_lower, ind)
        capitalized_words ==
            Cardinality({i \in 1..Len(words) : is_capitalized_word(words[i])})
        looks_like_person ==
            /\ 2 <= Len(words) /\ Len(words) <= 5
            /\ capitalized_words >= 2
            /\ name # name_upper
        decided(value, check) == [value |-> value, check |-> check]
    IN IF Len(name) < 3 \/ Len(name) > 150 THEN decided(FALSE, 1)
       ELSE IF name = name_upper /\ Len(words) > 4 THEN decided(FALSE, 2)
       ELSE IF name_no_pct \in exact_rejects THEN decided(FALSE, 3)
       ELSE IF \E header \in section_headers : Contains(name_lower, header)
            THEN decided(FALSE, 4)
       ELSE IF bad_start_check(name, name_lower) # "next"
            THEN decided(bad_start_check(name, name_lower) = "accept", 5)
       ELSE IF only_numbers_or_symbols(name) THEN decided(FALSE, 6)
       ELSE IF FootnoteLen(name) > 0 \/ At(name, 1) = "*" THEN decided(FALSE, 7)
       ELSE IF \E ending \in bad_endings : endswith(name_lower, ending)
            THEN decided(FALSE, 8)
       ELSE IF has_embedded_pct(name)
               /\ (has_entity_indicator \/ looks_like_person
                   \/ has_credentials(name))
            THEN decided(TRUE, 9)
       ELSE IF has_entity_indicator \/ looks_like_person \/ has_credentials(name)
            THEN decided(TRUE, 10)
       ELSE IF Len(words) >= 2 /\ Len(words) <= 4
               /\ \A i \in 1..Len(words) : At(words[i], 1) \in UpperSet
            THEN decided(TRUE, 11)
       ELSE decided(FALSE, 12)

is_valid_investor_name(name) == validator_decision(name).value

-----------------------------------------------------------------------------
(* FieldExtractor: the percentage and the share count of a data row         *)

\* length of the match of \d+\.?\d*% at the start of s without its "%",
\* 0 when there is none
PctLen(s) ==
    LET d1 == Run(s, Digits)
        d2 == Run(From(s, d1 + 2), Digits)
    IN IF d1 = 0 THEN 0
       ELSE IF At(s, d1 + 1) = "%" THEN d1
       ELSE IF At(s, d1 + 1) = "." /\ At(s, d1 + d2 + 2) = "%" THEN d1 + 1 + d2
       ELSE 0

\* re.search(r'(\d+\.?\d*)%', s): group(1) of the leftmost match, "" when
\* nothing matches
pct_match(s) ==
    LET hits == {i \in 1..Len(s) : PctLen(From(s, i)) > 0}
    IN IF hits = {} THEN ""
       ELSE LET i == CHOOSE k \in hits : \A j \in hits : k <= j
            IN Sub(s, i, i + PctLen(From(s, i)) - 1)

\* re.search(r'([\d,]+)', s.replace('%', '')): group(1), "" when nothing
\* matches
share_match(s) ==
    LET t == RemoveChar(s, "%")
        cls == Digits \cup {","}
        i == RunNot(t, cls) + 1
    IN Sub(t, i, i + Run(From(t, i), cls) - 1)

\* str.isdigit()
isdigit(s) == s # "" /\ Run(s, Digits) = Len(s)

DigitVal(c) == CHOOSE n \in 0..9 : At("0123456789", n + 1) = c

\* int(s) for a string of decimal digits
RECURSIVE int(_)
int(s) ==
    IF s = "" THEN 0
    ELSE 10 * int(Sub(s, 1, Len(s) - 1)) + DigitVal(At(s, Len(s)))

\* the floor a digit group must exceed to count as a share count
SharesFloor == 100

\* the pass without `'shares' not in stockholder`: a later cell overwrites
parse_cell_last_share_wins(stockholder, cell) ==
    LET cell_text == strip(cell)
        pct == pct_match(cell_text)
        st1 == IF pct # "" /\ "ownership_pct" \notin DOMAIN stockholder
               THEN stockholder @@ ("ownership_pct" :> pct)
               ELSE stockholder
        grp == share_match(cell_text)
        shares == RemoveChar(grp, ",")
    IN IF grp # "" /\ isdigit(shares) /\ int(shares) > SharesFloor
       THEN ("shares" :> shares) @@ st1
       ELSE st1

\* the pass without `'ownership_pct' not in stockholder`: a later cell overwrites
parse_cell_last_pct_wins(stockholder, cell) ==
    LET cell_text == strip(cell)
        pct == pct_match(cell_text)
        st1 == IF pct # ""
               THEN ("ownership_pct" :> pct) @@ stockholder
               ELSE stockholder
        grp == share_match(cell_text)
        shares == RemoveChar(grp, ",")
    IN IF grp # "" /\ "shares" \notin DOMAIN st1
          /\ isdigit(shares) /\ int(shares) > SharesFloor
       THEN st1 @@ ("shares" :> shares)
       ELSE st1

\* one pass of the loop over cells[1:] for one cell
parse_cell(stockholder, cell) ==
    LET cell_text == strip(cell)
        pct == pct_match(cell_text)
        st1 == IF pct # "" /\ "ownership_pct" \notin DOMAIN stockholder
               THEN stockholder @@ ("ownership_pct" :> pct)
               ELSE stockholder
        grp == share_match(cell_text)
        shares == RemoveChar(grp, ",")
    IN IF grp # "" /\ "shares" \notin DOMAIN st1
          /\ isdigit(shares) /\ int(shares) > SharesFloor
       THEN st1 @@ ("shares" :> shares)
       ELSE st1

\* the loop over cells[1:]
RECURSIVE parse_cells(_, _)
parse_cells(stockholder, cells) ==
    IF cells = <<>> THEN stockholder
    ELSE parse_cells(parse_cell(stockholder, Head(cells)), Tail(cells))

-----------------------------------------------------------------------------
(* TableCandidateLocator and row extraction: extract_stockholder_table      *)
(*                                                                         *)
(* A table is [prev, rows]: prev is the sequence of elements before the    *)
(* table, nearest first, as find_all_previous yields them, each            *)
(* [name, text]; rows is the sequence of its tr rows, each the sequence    *)
(* of the texts of its td/th cells. get_text() of a row or table is the    *)
(* concatenation of its cell texts.                                        *)

\* the words of each header pattern; between two words the pattern has \s+
header_patterns == {
    <<"principal", "stockholders">>,
    <<"principal", "and", "selling", "stockholders">>,
    <<"security", "ownership">>,
    <<"beneficial", "owner">>,
    <<"selling", "stockholders">>,
    <<"principal", "shareholders">> }

\* the match of a pattern at the start of s
RECURSIVE MatchWords(_, _)
MatchWords(s, ws) ==
    /\ startswith(s, Head(ws))
    /\ \/ Len(ws) = 1
       \/ LET r == From(s, Len(Head(ws)) + 1)
              w == Run(r, Spaces)
          IN w >= 1 /\ MatchWords(From(r, w + 1), Tail(ws))

\* re.search(pattern, s)
re_search(ws, s) == \E i \in 1..Len(s) : MatchWords(From(s, i), ws)

RECURSIVE Join(_)
Join(ts) == IF ts = <<>> THEN "" ELSE Head(ts) \o Join(Tail(ts))

row_get_text(row) == Join(row)

RECURSIVE table_get_text(_)
table_get_text(rows) ==
    IF rows = <<>> THEN "" ELSE row_get_text(Head(rows)) \o table_get_text(Tail(rows))

\* limit=5 of find_all_previous
Lookback == 5

heading_tags == {"h1", "h2", "h3", "h4", "p", "div", "b", "strong"}

\* the loop over table.find_all_previous(limit=5)
preceding_text(table) ==
    LET n == IF Len(table.prev) < Lookback THEN Len(table.prev) ELSE Lookback
        hits == {i \in 1..n : table.prev[i].name \in heading_tags}
    IN IF hits = {} THEN ""
       ELSE lower(table.prev[CHOOSE k \in hits : \A j \in hits : k <= j].text)

\* the pattern loop alone, without the test of the column wording
is_stockholder_table_patterns_only(table) ==
    LET table_text == lower(table_get_text(table.rows))
    IN \E pattern \in header_patterns :
          re_search(pattern, table_text) \/ re_search(pattern, preceding_text(table))

is_stockholder_table(table) ==
    LET table_text == lower(table_get_text(table.rows))
    IN \/ \E pattern \in header_patterns :
             re_search(pattern, table_text) \/ re_search(pattern, preceding_text(table))
       \/ /\ Contains(table_text, "beneficial")
          /\ (Contains(table_text, "shares") \/ Contains(table_text, "percent"))

is_header_row(row) ==
    LET row_text == lower(row_get_text(row))
    IN \/ /\ Contains(row_text, "name")
          /\ (Contains(row_text, "shares") \/ Contains(row_text, "percent"))
       \/ Contains(row_text, "beneficial owner")

\* header_row_idx, counted from 1; 0 stands for None
header_row_idx(rows) ==
    LET hits == {i \in 1..Len(rows) : is_header_row(rows[i])}
    IN IF hits = {} THEN 0 ELSE CHOOSE k \in hits : \A j \in hits : k <= j

\* the loop body without the validation of the name
parse_row_unvalidated(cells) ==
    IF Len(cells) >= 2
    THEN <<parse_cells([name |-> clean_name(cells[1])], Tail(cells))>>
    ELSE <<>>

\* the loop body keeping a row only when a field was parsed from it
parse_row_fields_required(cells) ==
    IF Len(cells) >= 2
    THEN LET name == clean_name(cells[1])
             stockholder == parse_cells([name |-> name], Tail(cells))
         IN IF ~is_valid_investor_name(name) \/ DOMAIN stockholder = {"name"}
            THEN <<>> ELSE <<stockholder>>
    ELSE <<>>

\* the body of the loop over the data rows: the records one row appends
parse_row(cells) ==
    IF Len(cells) >= 2
    THEN LET name == clean_name(cells[1])
         IN IF ~is_valid_investor_name(name) THEN <<>>
            ELSE <<parse_cells([name |-> name], Tail(cells))>>
    ELSE <<>>

RECURSIVE parse_rows(_)
parse_rows(rows) ==
    IF rows = <<>> THEN <<>> ELSE parse_row(Head(rows)) \o parse_rows(Tail(rows))

\* the slice starting at the header row itself
first_data_row_at_header(h) == h

\* the first row of `rows[header_row_idx + 1:]`, rows counted from 1
first_data_row(h) == h + 1

\* what the body of `if is_stockholder_table:` appends to stockholders
table_records(table) ==
    LET h == header_row_idx(table.rows)
    IN IF h = 0 THEN <<>>
       ELSE parse_rows(SubSeq(table.rows, first_data_row(h), Len(table.rows)))

\* the rows of the slice that append a record, in row order
RECURSIVE rows_appending(_, _)
rows_appending(rows, i) ==
    IF i > Len(rows) THEN <<>>
    ELSE (IF parse_row(rows[i]) # <<>> THEN <<i>> ELSE <<>>) \o rows_appending(rows, i + 1)

\* the rows of the table its records come from
record_rows(table) ==
    LET h == header_row_idx(table.rows)
    IN IF h = 0 THEN <<>> ELSE rows_appending(table.rows, first_data_row(h))

-----------------------------------------------------------------------------
(* Specification of the normalizer on its own: the clean-up is applied to  *)
(* a raw cell text and then again to its own result.                        *)

MaxTokens == 5
MaxPasses == 3
NameTokens == {"A", " ", "(1)", "(a)", "(", ")"}

RawNames == {Join(ts) : ts \in UNION {[1..n -> NameTokens] : n \in 0..MaxTokens}}

ExtIdle == doc = <<>> /\ ti = 0 /\ stockholders = <<>> /\ xpc = "idle" /\ passes = <<>>
MainIdle ==
    /\ filings = <<>> /\ fi = 0 /\ all_investors = <<>> /\ mpc = "idle"
    /\ files = <<>> /\ main_return = NoValue
    /\ enrich_foundations = FALSE /\ ei = 0 /\ lookups = <<>>
NoMatch == [type |-> "none"]
MatchIdle ==
    /\ find_match_calls = <<>>
    /\ organizations = <<>> /\ persons = <<>>
    /\ investor_name = "" /\ threshold = 0
    /\ best_match = NoMatch /\ best_score = 0 /\ mi = 0 /\ fpc = "idle"

NormInit ==
    /\ nm_raw \in RawNames
    /\ nm_hist = <<>>
    /\ ExtIdle /\ MainIdle /\ MatchIdle /\ PureIdle /\ LoadIdle

NormalizeName ==
    /\ Len(nm_hist) < MaxPasses
    /\ nm_hist' = Append(nm_hist,
                         IF nm_hist = <<>> THEN normalize(nm_raw)
                         ELSE normalize(nm_hist[Len(nm_hist)]))
    /\ UNCHANGED <<nm_raw, extVars, mainVars, matchVars, pureVars, loadVars>>

NormNext == NormalizeName

NormSpec == NormInit /\ [][NormNext]_vars

-----------------------------------------------------------------------------
(* Specification of extract_stockholder_table: one step per table of the   *)
(* loop over soup.find_all('table').                                       *)

MaxTables == 3

HeaderRow == <<"Name of Beneficial Owner", "Shares", "Percent">>

\* nothing before the table and no stockholder wording in it
T_plain ==
    [prev |-> <<>>,
     rows |-> <<<<"Fiscal Year", "Revenue">>, <<"2023", "1,500">>>>]

\* under a section heading, but no row is a header row
T_noheader ==
    [prev |-> <<[name |-> "span", text |-> ""],
                [name |-> "b", text |-> "Principal  Stockholders"]>>,
     rows |-> <<<<"Jane Doe", "1,000">>, <<"Acme Fund LP", "7%">>>>]

\* qualifies and has a header row, but no first cell is an investor name
T_rejected ==
    [prev |-> <<[name |-> "p", text |-> "SELLING STOCKHOLDERS"]>>,
     rows |-> <<HeaderRow,
                <<"Risk Factors", "12">>,
                <<"(1)", "99">>,
                <<"Total", "1,000", "100%">>>>]

\* the ownership table of a filing
T_main ==
    [prev |-> <<[name |-> "h2", text |-> "Principal and Selling Stockholders"]>>,
     rows |-> <<<<"5% Stockholders", "">>,
                HeaderRow,
                <<"Jane Doe (1)", "1,234,567 shares", "4.5%">>,
                <<"ABC Capital Partners LLC(a)", "2,000,000", "150%">>,
                <<"John A. Smith", "-">>,
                <<"John A. Smith">>,
                <<"Jane Doe", "(2)", "3.0%", "9.9%">>>>]

\* qualifies by its own column wording; the heading lies beyond the lookback
T_own ==
    [prev |-> <<[name |-> "td", text |-> "x"], [name |-> "tr", text |-> "x"],
                [name |-> "td", text |-> "x"], [name |-> "tr", text |-> "x"],
                [name |-> "table", text |-> "x"],
                [name |-> "h3", text |-> "Security Ownership"]>>,
     rows |-> <<<<"Name", "Shares beneficially held", "%">>,
                <<"Acme Family Trust", "99", "12%">>,
                <<"All executive officers and directors as a group (12 persons)",
                  "5,000,000", "45.0%">>>>]

\* the heading lies beyond the lookback and the table has no wording of its own
T_far ==
    [prev |-> <<[name |-> "td", text |-> "x"], [name |-> "tr", text |-> "x"],
                [name |-> "td", text |-> "x"], [name |-> "tr", text |-> "x"],
                [name |-> "table", text |-> "x"],
                [name |-> "h3", text |-> "Principal Stockholders"]>>,
     rows |-> <<<<"Name", "Shares">>, <<"Zed Ventures Ltd", "500">>>>]

\* only the div before the table names the section
T_div ==
    [prev |-> <<[name |-> "br", text |-> ""],
                [name |-> "div", text |-> "BENEFICIAL OWNERSHIP"]>>,
     rows |-> <<<<"Name", "Number of Shares">>, <<"Zed Ventures Ltd", "500">>>>]

\* a div without section wording lies between the table and the heading
T_divfirst ==
    [prev |-> <<[name |-> "div", text |-> "Table of Contents"],
                [name |-> "h2", text |-> "Principal Stockholders"]>>,
     rows |-> <<<<"Name", "Number of Shares">>, <<"Zed Ventures Ltd", "500">>>>]

\* rows with investor names lie before the first row taken for the header row,
\* which has an investor name in its first cell as well
T_early ==
    [prev |-> <<[name |-> "strong", text |-> "Selling Stockholders"]>>,
     rows |-> <<<<"Jane Doe", "1,000">>,
                <<"Surname Capital LLC", "5,000 shares">>,
                <<"Zed Ventures Ltd", "500">>,
                <<"Name", "Percent">>,
                <<"Beta Fund LP", "7%">>>>]

\* the ownership table of a filing with a foundation among its holders
T_grant ==
    [prev |-> <<[name |-> "h2", text |-> "Principal Stockholders"]>>,
     rows |-> <<HeaderRow,
                <<"Zed Foundation", "2,500,000", "8.1%">>,
                <<"Beta Fund LP", "900,000", "3.0%">>>>]

TablePool == {T_plain, T_noheader, T_rejected, T_main, T_own, T_far, T_div,
              T_divfirst, T_early, T_grant}

Documents == UNION {[1..n -> TablePool] : n \in 0..MaxTables}

NormIdle == nm_raw = "" /\ nm_hist = <<>>

ExtInit ==
    /\ doc \in Documents
    /\ ti = 1
    /\ stockholders = <<>>
    /\ xpc = "loop"
    /\ passes = <<>>
    /\ NormIdle /\ MainIdle /\ MatchIdle /\ PureIdle /\ LoadIdle

\* one pass of `for table in tables:` up to `if stockholders: break`: whether
\* the table qualified, and the records its rows append to stockholders
table_pass(table) ==
    [qualifies |-> is_stockholder_table(table),
     header    |-> IF is_stockholder_table(table) THEN header_row_idx(table.rows) ELSE 0,
     from_rows |-> IF is_stockholder_table(table) THEN record_rows(table) ELSE <<>>,
     records   |-> IF is_stockholder_table(table) THEN table_records(table) ELSE <<>>]

\* table_pass of every table of the pool, evaluated once
TablePass == [t \in TablePool |-> table_pass(t)]

\* a scan that goes on whatever was found
never_stops_scan(found) == FALSE

\* `if stockholders: break`
stops_scan(found) == found # <<>>

ScanTable ==
    /\ xpc = "loop"
    /\ ti <= Len(doc)
    /\ stockholders' = stockholders \o TablePass[doc[ti]].records
    /\ passes' = Append(passes, TablePass[doc[ti]])
    /\ IF TablePass[doc[ti]].qualifies /\ stops_scan(stockholders')
       THEN xpc' = "break" /\ ti' = ti
       ELSE xpc' = "loop" /\ ti' = ti + 1
    /\ UNCHANGED <<doc, normVars, pureVars, mainVars, matchVars, loadVars>>

\* `return stockholders`, after the break or at the end of the loop
ReturnStockholders ==
    /\ xpc = "break" \/ (xpc = "loop" /\ ti > Len(doc))
    /\ xpc' = "returned"
    /\ UNCHANGED <<doc, ti, stockholders, passes, normVars, pureVars, mainVars,
                   matchVars, loadVars>>

ExtNext == ScanTable \/ ReturnStockholders

ExtSpec == ExtInit /\ [][ExtNext]_vars

-----------------------------------------------------------------------------
(* EntityClassifier and the record main builds                              *)

any_term(name_lower, terms) == \E term \in terms : Contains(name_lower, term)

\* the chain without its final else: the function falls off its end
classify_entity_no_default(name) ==
    LET name_lower == lower(name)
    IN IF any_term(name_lower, {"foundation", "endowment"}) THEN "foundation"
       ELSE IF any_term(name_lower, {"family office", "family trust", "family lp"})
            THEN "family_office"
       ELSE IF any_term(name_lower, {"trust", "estate"}) THEN "trust"
       ELSE IF any_term(name_lower, {"capital", "partners", "ventures", "fund",
                                     "management", "advisors", "llc", "lp"})
            THEN "fund"
       ELSE IF any_term(name_lower, {"inc", "corp", "corporation", "company"})
            THEN "corporate"
       ELSE "None"

\* the chain with the trust test ahead of the family-office test
classify_entity_trust_first(name) ==
    LET name_lower == lower(name)
    IN IF any_term(name_lower, {"foundation", "endowment"}) THEN "foundation"
       ELSE IF any_term(name_lower, {"trust", "estate"}) THEN "trust"
       ELSE IF any_term(name_lower, {"family office", "family trust", "family lp"})
            THEN "family_office"
       ELSE IF any_term(name_lower, {"capital", "partners", "ventures", "fund",
                                     "management", "advisors", "llc", "lp"})
            THEN "fund"
       ELSE IF any_term(name_lower, {"inc", "corp", "corporation", "company"})
            THEN "corporate"
       ELSE "unknown"

classify_entity(name) ==
    LET name_lower == lower(name)
    IN IF any_term(name_lower, {"foundation", "endowment"}) THEN "foundation"
       ELSE IF any_term(name_lower, {"family office", "family trust", "family lp"})
            THEN "family_office"
       ELSE IF any_term(name_lower, {"trust", "estate"}) THEN "trust"
       ELSE IF any_term(name_lower, {"capital", "partners", "ventures", "fund",
                                     "management", "advisors", "llc", "lp"})
            THEN "fund"
       ELSE IF any_term(name_lower, {"inc", "corp", "corporation", "company"})
            THEN "corporate"
       ELSE "unknown"

\* name.replace(' ', '%20')
RECURSIVE encode_spaces(_)
encode_spaces(s) ==
    IF s = "" THEN ""
    ELSE (IF At(s, 1) = " " THEN "%20" ELSE At(s, 1)) \o encode_spaces(From(s, 2))

generate_linkedin_search_url(name) ==
    "https://www.linkedin.com/search/results/companies/?keywords=" \o encode_spaces(name)

\* dict.get(key, '')
get(d, key) == IF key \in DOMAIN d THEN d[key] ELSE ""

\* the dict main builds for one stockholder of a filing
investor_record(stockholder, filing) ==
    [investor_name       |-> stockholder.name,
     company_ipo         |-> filing.company_name,
     filing_date         |-> filing.filing_date,
     ownership_pct       |-> get(stockholder, "ownership_pct"),
     shares              |-> get(stockholder, "shares"),
     entity_type         |-> classify_entity(stockholder.name),
     in_crm              |-> FALSE,
     crm_status          |-> "",
     crm_last_activity   |-> "",
     crm_notes           |-> "",
     foundation_contacts |-> "",
     linkedin_search_url |-> generate_linkedin_search_url(stockholder.name)]

-----------------------------------------------------------------------------
(* DocumentResolver: the first part of parse_stockholders                   *)
(*                                                                         *)
(* A filing carries what the network serves for it: index is the response  *)
(* to the request for filing_url and document the response to the request  *)
(* for the resolved link. raises names what the fetch-and-parse of that    *)
(* response raises: "none", "RequestException" (any transport error of     *)
(* requests) or "Exception" (any error that is not a RequestException).    *)
(* An index page is [links, table_file]: the anchors outside the file      *)
(* table, then the rows of the table of class tableFile; a row is the      *)
(* sequence of its td cells, a cell [text, links], a link [text, href].    *)

RECURSIVE cell_links(_)
cell_links(cells) ==
    IF cells = <<>> THEN <<>> ELSE Head(cells).links \o cell_links(Tail(cells))

RECURSIVE row_links(_)
row_links(rows) ==
    IF rows = <<>> THEN <<>> ELSE cell_links(Head(rows)) \o row_links(Tail(rows))

\* soup.find_all('a')
find_all_a(page) == page.links \o row_links(page.table_file)

absolute(href) == IF startswith(href, "/") THEN "https://www.sec.gov" \o href ELSE href

\* the test without the archive path
is_document_anchor_any_path(link) ==
    Contains(lower(link.text), "s-1") \/ endswith(link.href, ".htm")

\* the test of the loop over soup.find_all('a')
is_document_anchor(link) ==
    /\ Contains(lower(link.text), "s-1") \/ endswith(link.href, ".htm")
    /\ Contains(link.href, "/Archives/edgar/data/")

\* the loop over soup.find_all('a'); "" stands for None
primary_doc_link(page) ==
    LET as == find_all_a(page)
        hits == {i \in 1..Len(as) : is_document_anchor(as[i])}
    IN IF hits = {} THEN ""
       ELSE absolute(as[CHOOSE k \in hits : \A j \in hits : k <= j].href)

\* whether the loop over the rows of the file table stops at this row
is_file_row(cells) ==
    /\ Len(cells) >= 3
    /\ \/ Contains(IF Len(cells) > 3 THEN strip(cells[4].text) ELSE "", "S-1")
       \/ cells[1].links # <<>>
    /\ cells[3].links # <<>>

\* the loop over table.find_all('tr')
fallback_doc_link(page) ==
    LET rows == page.table_file
        hits == {i \in 1..Len(rows) : is_file_row(rows[i])}
    IN IF hits = {} THEN ""
       ELSE absolute(rows[CHOOSE k \in hits : \A j \in hits : k <= j][3].links[1].href)

resolve_doc_link(page) ==
    IF primary_doc_link(page) # "" THEN primary_doc_link(page)
    ELSE fallback_doc_link(page)

\* a handler for the wrong exception class
caught_value_error(exception) == exception = "ValueError"

\* `except requests.RequestException`
caught(exception) == exception = "RequestException"

\* parse_stockholders up to the call of extract_stockholder_table:
\* "return" (an empty list is returned), "raise" (an exception leaves the
\* function) or "extract"
resolve_outcome(filing) ==
    IF filing.filing_url = "" THEN "return"
    ELSE IF filing.index.raises # "none"
         THEN IF caught(filing.index.raises) THEN "return" ELSE "raise"
    ELSE IF resolve_doc_link(filing.index.page) = "" THEN "return"
    ELSE IF filing.document.raises # "none"
         THEN IF caught(filing.document.raises) THEN "return" ELSE "raise"
    ELSE "extract"

-----------------------------------------------------------------------------
(* Specification of main: the loop over the filings, with                  *)
(* parse_stockholders and extract_stockholder_table as its steps.          *)

MaxFilings == 3

ArchiveLink == [text |-> "S-1", href |-> "/Archives/edgar/data/1870000/000187/forms1.htm"]
HomeLink == [text |-> "Home", href |-> "/index.htm"]

PlainPage == [links |-> <<HomeLink, ArchiveLink>>, table_file |-> <<>>]

\* no anchor of the page lies under the archive path
NoLinkPage ==
    [links |-> <<HomeLink>>,
     table_file |-> <<<<[text |-> "1", links |-> <<>>],
                       [text |-> "Registration statement", links |-> <<>>],
                       [text |-> "forms1.txt", links |-> <<>>],
                       [text |-> "S-1", links |-> <<>>]>>>>]

\* only the file table leads to the document
TablePage ==
    [links |-> <<HomeLink>>,
     table_file |-> <<<<[text |-> "1", links |-> <<>>],
                       [text |-> "Registration statement", links |-> <<>>],
                       [text |-> "forms1.txt",
                        links |-> <<[text |-> "forms1.txt", href |-> "/docs/forms1.txt"]>>],
                       [text |-> " S-1/A ", links |-> <<>>]>>>>]

Served(tables) == [raises |-> "none", tables |-> tables]
Failing(exception) == [raises |-> exception, tables |-> <<>>]

Filing(company, url, index_raises, page, document) ==
    [company_name |-> company, filing_date |-> "2024-05-01", filing_url |-> url,
     index |-> [raises |-> index_raises, page |-> page], document |-> document]

IndexUrl == "https://www.sec.gov/Archives/edgar/data/1870000/000187-index.htm"

FilingPool == {
    Filing("Main Corp", IndexUrl, "none", PlainPage, Served(<<T_plain, T_main>>)),
    Filing("Own Corp", IndexUrl, "none", TablePage, Served(<<T_noheader, T_own>>)),
    Filing("Grant Corp", IndexUrl, "none", PlainPage, Served(<<T_grant>>)),
    Filing("Empty Corp", IndexUrl, "none", PlainPage, Served(<<T_rejected>>)),
    Filing("NoUrl Corp", "", "none", PlainPage, Served(<<T_main>>)),
    Filing("IndexDown Corp", IndexUrl, "RequestException", PlainPage, Served(<<T_main>>)),
    Filing("NoLink Corp", IndexUrl, "none", NoLinkPage, Served(<<T_main>>)),
    Filing("DocDown Corp", IndexUrl, "none", PlainPage, Failing("RequestException")),
    Filing("Broken Corp", IndexUrl, "none", PlainPage, Failing("Exception")) }

\* resolve_outcome of every filing of the pool, evaluated once
ResolveOutcome == [f \in FilingPool |-> resolve_outcome(f)]

MainInit ==
    /\ filings \in UNION {[1..n -> FilingPool] : n \in 0..MaxFilings}
    /\ fi = 1
    /\ all_investors = <<>>
    /\ mpc = "start"
    /\ files = <<>>
    /\ main_return = NoValue
    /\ enrich_foundations \in BOOLEAN
    /\ ei = 0
    /\ lookups = <<>>
    /\ ExtIdle /\ NormIdle /\ MatchIdle /\ PureIdle /\ LoadIdle

\* `filings = get_recent_s1_filings(...)` and `if not filings: return []`
GetFilings ==
    /\ mpc = "start"
    /\ mpc' = IF filings = <<>> THEN "done" ELSE "loop"
    /\ main_return' = IF filings = <<>> THEN [value |-> <<>>] ELSE main_return
    /\ UNCHANGED <<filings, fi, all_investors, files, enrich_foundations, ei, lookups,
                   extVars, normVars, pureVars, matchVars, loadVars>>

\* `stockholders = parse_stockholders(filing)` up to the extraction: the
\* function returns its empty list, hands the fetched document to
\* extract_stockholder_table, or lets an exception through, which leaves
\* main and reaches the handler of __main__
BeginParse ==
    /\ mpc = "loop" /\ xpc = "idle" /\ fi <= Len(filings)
    /\ LET outcome == ResolveOutcome[filings[fi]]
       IN /\ stockholders' = <<>>
          /\ doc' = IF outcome = "extract" THEN filings[fi].document.tables ELSE <<>>
          /\ ti' = IF outcome = "extract" THEN 1 ELSE 0
          /\ passes' = <<>>
          /\ xpc' = CASE outcome = "extract" -> "loop"
                      [] outcome = "return" -> "returned"
                      [] OTHER -> "idle"
          /\ mpc' = IF outcome = "raise" THEN "fatal" ELSE "loop"
    /\ UNCHANGED <<filings, fi, all_investors, files, main_return, enrich_foundations,
                   ei, lookups, normVars, pureVars, matchVars, loadVars>>

RECURSIVE investor_records(_, _)
investor_records(found, filing) ==
    IF found = <<>> THEN <<>>
    ELSE <<investor_record(Head(found), filing)>> \o investor_records(Tail(found), filing)

\* the rest of the loop body: `if stockholders:` and the loop over them
CollectInvestors ==
    /\ mpc = "loop" /\ xpc = "returned"
    /\ all_investors' = all_investors \o investor_records(stockholders, filings[fi])
    /\ fi' = fi + 1
    /\ doc' = <<>> /\ ti' = 0 /\ stockholders' = <<>> /\ xpc' = "idle"
    /\ passes' = <<>>
    /\ UNCHANGED <<filings, mpc, files, main_return, enrich_foundations, ei, lookups,
                   normVars, pureVars, matchVars, loadVars>>

\* the end of the loop over the filings and `if not all_investors: return []`
EndFilings ==
    /\ mpc = "loop" /\ xpc = "idle" /\ fi > Len(filings)
    /\ mpc' = IF all_investors = <<>> THEN "done" ELSE "enrich"
    /\ ei' = IF all_investors = <<>> THEN ei ELSE 1
    /\ main_return' = IF all_investors = <<>> THEN [value |-> <<>>] ELSE main_return
    /\ UNCHANGED <<filings, fi, all_investors, files, enrich_foundations, lookups,
                   extVars, normVars, pureVars, matchVars, loadVars>>

\* d.get(key, default)
get_or(d, key, default) == IF key \in DOMAIN d THEN d[key] ELSE default

\* lookup_foundation_officers for what the registry answers: the first search
\* result (NoValue for none), the filings of its EIN and the organization
\* details (NoValue for None and for an empty dict)
lookup_foundation_officers(foundation_name, answer) ==
    IF answer.org = NoValue THEN <<>>
    ELSE IF get(answer.org, "ein") = "" THEN <<>>
    ELSE IF answer.filings = <<>> THEN <<>>
    ELSE IF answer.org_details = NoValue THEN <<>>
    ELSE <<[name         |-> get_or(answer.org_details, "name", foundation_name),
            title        |-> "Foundation",
            ein          |-> answer.org.ein,
            city         |-> get(answer.org_details, "city"),
            state        |-> get(answer.org_details, "state"),
            total_assets |-> get(answer.org_details, "asset_amount")]>>

\* the number of officers main joins
ContactsLimit == 5

\* officers[:n]
first_officers(officers, n) ==
    IF Len(officers) <= n THEN officers ELSE [i \in 1..n |-> officers[i]]

\* '; '.join([f"{o['name']} ({o['title']})" for o in officers])
RECURSIVE join_contacts(_)
join_contacts(officers) ==
    IF officers = <<>> THEN ""
    ELSE Head(officers).name \o " (" \o Head(officers).title \o ")"
         \o (IF Tail(officers) = <<>> THEN "" ELSE "; " \o join_contacts(Tail(officers)))

\* a filter that lets every record through
is_foundation_any(investor) == TRUE

\* `i['entity_type'] == 'foundation'`
is_foundation(investor) == investor.entity_type = "foundation"

\* foundations = [i for i in all_investors if ...], as positions in all_investors
RECURSIVE foundations_from(_, _)
foundations_from(investors, i) ==
    IF i > Len(investors) THEN <<>>
    ELSE (IF is_foundation(investors[i]) THEN <<i>> ELSE <<>>)
         \o foundations_from(investors, i + 1)

foundations(investors) == foundations_from(investors, 1)

RegistryOrg == [ein |-> "042103580", name |-> "ZED FOUNDATION INC"]
RegistryFiling == [tax_prd |-> 202212, pdf_url |-> "https://projects.propublica.org/990.pdf"]
RegistryDetails ==
    [name |-> "ZED FOUNDATION INC", city |-> "Boston", state |-> "MA",
     asset_amount |-> "1000000"]

\* what the registry may answer to the requests of one lookup
RegistryAnswers == {
    [org |-> NoValue, filings |-> <<>>, org_details |-> NoValue],
    [org |-> [name |-> "ZED FOUNDATION INC"], filings |-> <<RegistryFiling>>,
     org_details |-> RegistryDetails],
    [org |-> RegistryOrg, filings |-> <<>>, org_details |-> RegistryDetails],
    [org |-> RegistryOrg, filings |-> <<RegistryFiling>>, org_details |-> NoValue],
    [org |-> RegistryOrg, filings |-> <<RegistryFiling>>, org_details |-> RegistryDetails],
    [org |-> RegistryOrg, filings |-> <<RegistryFiling, RegistryFiling>>,
     org_details |-> [city |-> "Austin"]] }

\* one pass of `for i, investor in enumerate(foundations, 1):`
EnrichFoundation ==
    /\ mpc = "enrich" /\ enrich_foundations
    /\ ei <= Len(foundations(all_investors))
    /\ \E answer \in RegistryAnswers :
          LET pos == foundations(all_investors)[ei]
              investor == all_investors[pos]
              officers == lookup_foundation_officers(investor.investor_name, answer)
          IN /\ lookups' = Append(lookups, [foundation_name |-> investor.investor_name,
                                            officers        |-> officers])
             /\ all_investors' =
                    IF officers # <<>>
                    THEN [all_investors EXCEPT ![pos].foundation_contacts =
                             join_contacts(first_officers(officers, ContactsLimit))]
                    ELSE all_investors
    /\ ei' = ei + 1
    /\ UNCHANGED <<filings, fi, mpc, files, main_return, enrich_foundations, extVars,
                   normVars, pureVars, matchVars, loadVars>>

\* step 3 is over, or skipped when the enrichment is disabled
EndEnrichment ==
    /\ mpc = "enrich"
    /\ ~enrich_foundations \/ ei > Len(foundations(all_investors))
    /\ mpc' = "save"
    /\ UNCHANGED <<filings, fi, all_investors, files, main_return, enrich_foundations,
                   ei, lookups, extVars, normVars, pureVars, matchVars, loadVars>>

\* datetime.now().strftime('%Y-%m-%d') of the run
RunDate == "2024-05-06"

\* the two files write_to_csv writes for a non-empty list, none for an empty one
write_to_csv(investors, filename) ==
    IF investors = <<>> THEN <<>>
    ELSE <<[path |-> "/home/claude/" \o filename, rows |-> investors],
           [path |-> "/mnt/user-data/outputs/" \o filename, rows |-> investors]>>

\* `write_to_csv(all_investors, filename)` and `return all_investors`
SaveCsv ==
    /\ mpc = "save"
    /\ files' = files \o write_to_csv(all_investors, "s1_investors_" \o RunDate \o ".csv")
    /\ main_return' = [value |-> all_investors]
    /\ mpc' = "done"
    /\ UNCHANGED <<filings, fi, all_investors, enrich_foundations, ei, lookups,
                   extVars, normVars, pureVars, matchVars, loadVars>>

MainNext ==
    \/ GetFilings
    \/ BeginParse
    \/ ScanTable
    \/ ReturnStockholders
    \/ CollectInvestors
    \/ EndFilings
    \/ EnrichFoundation
    \/ EndEnrichment
    \/ SaveCsv

MainSpec == MainInit /\ [][MainNext]_vars

-----------------------------------------------------------------------------
(* RosterMatcher: AffinityClient.find_match                                 *)
(*                                                                         *)
(* organizations and persons are the two dicts of the client in insertion  *)
(* order. An entry carries, besides the cached data, the values            *)
(* fuzz.ratio and fuzz.partial_ratio give for the name looked up against   *)
(* its key: they come from the fuzzywuzzy library.                         *)

fuzz_ratio(entry) == entry.ratio
fuzz_partial_ratio(entry) == entry.partial

\* score = max(score, partial_score)
entry_score(entry) ==
    IF fuzz_ratio(entry) >= fuzz_partial_ratio(entry)
    THEN fuzz_ratio(entry) ELSE fuzz_partial_ratio(entry)

\* the comparison with >= in place of >
improves_or_ties(score, best, thr) == score >= best /\ score >= thr

\* the comparison without the best score so far
improves_any_qualifying(score, best, thr) == score >= thr

\* `if score > best_score and score >= threshold`
improves(score, best, thr) == score > best /\ score >= thr

\* the dict built for a matching organization
organization_match(org_data) ==
    [type          |-> "organization",
     name          |-> org_data.name,
     match_score   |-> entry_score(org_data),
     status        |-> org_data.opportunity.status,
     last_activity |-> org_data.opportunity.last_activity,
     notes         |-> org_data.opportunity.notes,
     domain        |-> org_data.domain,
     affinity_id   |-> org_data.id]

\* the dict built for a matching person
person_match(person_data) ==
    [type          |-> "person",
     name          |-> person_data.first_name \o " " \o person_data.last_name,
     match_score   |-> entry_score(person_data),
     status        |-> person_data.opportunity.status,
     last_activity |-> person_data.opportunity.last_activity,
     notes         |-> person_data.opportunity.notes,
     email         |-> person_data.primary_email,
     affinity_id   |-> person_data.id]

\* the two loops of find_match over a roster: each entry in turn replaces the
\* best so far when `improves` says so
RECURSIVE scan_entries(_, _, _, _)
scan_entries(entries, type, best, thr) ==
    IF entries = <<>> THEN best
    ELSE LET entry == Head(entries)
             score == entry_score(entry)
         IN scan_entries(Tail(entries), type,
                IF improves(score, best.best_score, thr)
                THEN [best_score |-> score,
                      best_match |-> IF type = "organization"
                                     THEN organization_match(entry)
                                     ELSE person_match(entry)]
                ELSE best,
                thr)

\* find_match as a function of the two rosters and the threshold
find_match(orgs, pers, thr) ==
    scan_entries(pers, "person",
        scan_entries(orgs, "organization",
                     [best_score |-> 0, best_match |-> NoMatch], thr),
        thr).best_match

\* the default threshold of find_match
DefaultThreshold == 80

MaxOrgs == 2
MaxPersons == 2

OrgNames == <<"Acme Capital", "Zed Ventures", "Beta Fund", "Gamma Partners">>
PersonNames == <<"Jane", "John", "Mary", "Paul">>

\* the pairs (fuzz.ratio, fuzz.partial_ratio) an entry may have
ScorePairs == {<<0, 0>>, <<60, 80>>, <<90, 70>>}
Thresholds == {0, DefaultThreshold, 90}

Opportunity(i) ==
    [status |-> "Active", last_activity |-> "2024-04-0" \o At("123456789", i), notes |-> ""]

OrgEntry(i, sc) ==
    [name |-> OrgNames[i], id |-> 100 + i, domain |-> "",
     ratio |-> sc[1], partial |-> sc[2], opportunity |-> Opportunity(i)]

PersonEntry(i, sc) ==
    [first_name |-> PersonNames[i], last_name |-> "Doe", id |-> 200 + i,
     primary_email |-> "", ratio |-> sc[1], partial |-> sc[2],
     opportunity |-> Opportunity(i)]

OrgRosters ==
    {[i \in 1..n |-> OrgEntry(i, scs[i])] :
        n \in 0..MaxOrgs, scs \in [1..MaxOrgs -> ScorePairs]}

PersonRosters ==
    {[i \in 1..n |-> PersonEntry(i, scs[i])] :
        n \in 0..MaxPersons, scs \in [1..MaxPersons -> ScorePairs]}

\* the state at the first statement of find_match's first loop
MatchInit ==
    /\ organizations \in OrgRosters
    /\ persons \in PersonRosters
    /\ investor_name = "ACME Capital, LLC"
    /\ threshold \in Thresholds
    /\ best_match = NoMatch
    /\ best_score = 0
    /\ mi = 1
    /\ fpc = "orgs"
    /\ find_match_calls = <<>>
    /\ NormIdle /\ ExtIdle /\ MainIdle /\ PureIdle /\ LoadIdle

\* one pass of `for org_name, org_data in self.organizations.items():`
CheckOrganization ==
    /\ fpc = "orgs" /\ mi <= Len(organizations)
    /\ LET org_data == organizations[mi]
           score == entry_score(org_data)
       IN IF improves(score, best_score, threshold)
          THEN best_score' = score /\ best_match' = organization_match(org_data)
          ELSE UNCHANGED <<best_score, best_match>>
    /\ mi' = mi + 1
    /\ UNCHANGED <<fpc, find_match_calls, organizations, persons, investor_name,
                   threshold, normVars, pureVars, extVars, mainVars, loadVars>>

\* the first loop is over: on to the persons
EndOrganizations ==
    /\ fpc = "orgs" /\ mi > Len(organizations)
    /\ fpc' = "persons" /\ mi' = 1
    /\ UNCHANGED <<best_score, best_match, find_match_calls, organizations, persons,
                   investor_name, threshold, normVars, pureVars, extVars, mainVars,
                   loadVars>>

\* one pass of `for person_name, person_data in self.persons.items():`
CheckPerson ==
    /\ fpc = "persons" /\ mi <= Len(persons)
    /\ LET person_data == persons[mi]
           score == entry_score(person_data)
       IN IF improves(score, best_score, threshold)
          THEN best_score' = score /\ best_match' = person_match(person_data)
          ELSE UNCHANGED <<best_score, best_match>>
    /\ mi' = mi + 1
    /\ UNCHANGED <<fpc, find_match_calls, organizations, persons, investor_name,
                   threshold, normVars, pureVars, extVars, mainVars, loadVars>>

\* `return best_match`
ReturnMatch ==
    /\ fpc = "persons" /\ mi > Len(persons)
    /\ fpc' = "returned"
    /\ find_match_calls' =
          Append(find_match_calls, [investor_name |-> investor_name, result |-> best_match])
    /\ UNCHANGED <<best_score, best_match, mi, organizations, persons, investor_name,
                   threshold, normVars, pureVars, extVars, mainVars, loadVars>>

MatchNext == CheckOrganization \/ EndOrganizations \/ CheckPerson \/ ReturnMatch

MatchSpec == MatchInit /\ [][MatchNext]_vars

-----------------------------------------------------------------------------
(* AffinityClient.load_fundraising_list, followed by a find_match           *)
(*                                                                         *)
(* A list entry is given with everything the API serves for it: its field  *)
(* values, the details of its entity (NoValue when the request fails and   *)
(* _get returns None), the interactions of its entity, most recent first,  *)
(* and the fuzz values of the name looked up later against its key.        *)

\* Python's truth value of an integer entity_type or entity_id
truthy(x) == x # 0

\* get_interactions(..., limit): the first `limit` interactions served
get_interactions(entry, limit) ==
    IF Len(entry.interactions) <= limit THEN entry.interactions
    ELSE [i \in 1..limit |-> entry.interactions[i]]

\* the loop over field_values from the opportunity data built so far
RECURSIVE extract_field_values(_, _)
extract_field_values(data, field_values) ==
    IF field_values = <<>> THEN data
    ELSE LET fv == Head(field_values)
             field_name == lower(fv.name)
         IN extract_field_values(
                IF Contains(field_name, "status") \/ Contains(field_name, "stage")
                THEN [data EXCEPT !.status = fv.value]
                ELSE IF Contains(field_name, "note")
                THEN [data EXCEPT !.notes = fv.value]
                ELSE data,
                Tail(field_values))

\* `if entity_type and entity_id:`
fetches_interactions(entity_type, entity_id) ==
    truthy(entity_type) /\ truthy(entity_id)

\* opportunity_data of an entry when the caching step is reached
opportunity_data(entry) ==
    LET fields == extract_field_values(
                      [entry_id      |-> entry.id,
                       entity_type   |-> entry.entity_type,
                       entity_id     |-> entry.entity_id,
                       status        |-> "",
                       last_activity |-> "",
                       notes         |-> ""],
                      entry.field_values)
        interactions ==
            IF fetches_interactions(entry.entity_type, entry.entity_id)
            THEN get_interactions(entry, 1)
            ELSE <<>>
    IN IF interactions # <<>>
       THEN [fields EXCEPT !.last_activity = interactions[1].date]
       ELSE fields

\* d[key] = value on a dict kept in insertion order: a key already there keeps
\* its place
RECURSIVE dict_set(_, _, _)
dict_set(d, key, value) ==
    IF d = <<>> THEN <<value>>
    ELSE IF Head(d).key = key THEN <<value>> \o Tail(d)
    ELSE <<Head(d)>> \o dict_set(Tail(d), key, value)

\* {**org, 'opportunity': opportunity_data} under its key
cached_organization(entry) ==
    [key         |-> lower(strip(entry.details.name)),
     name        |-> entry.details.name,
     id          |-> entry.details.id,
     domain      |-> entry.details.domain,
     ratio       |-> entry.ratio,
     partial     |-> entry.partial,
     opportunity |-> opportunity_data(entry)]

\* {**person, 'opportunity': opportunity_data} under its key
cached_person(entry) ==
    [key           |-> lower(strip(entry.details.first_name \o " "
                                   \o entry.details.last_name)),
     first_name    |-> entry.details.first_name,
     last_name     |-> entry.details.last_name,
     id            |-> entry.details.id,
     primary_email |-> entry.details.primary_email,
     ratio         |-> entry.ratio,
     partial       |-> entry.partial,
     opportunity   |-> opportunity_data(entry)]

MaxEntries == 3

Interaction(d) == [date |-> d]
StageField == [name |-> "Deal Stage", value |-> "Active"]
NotesField == [name |-> "Notes", value |-> "met at demo day"]
OwnerField == [name |-> "Owner", value |-> "pat"]

OrgActive ==
    [id |-> 11, entity_type |-> 0, entity_id |-> 101,
     field_values |-> <<StageField, NotesField>>,
     details |-> [id |-> 101, name |-> "Acme Capital ", domain |-> "acme.example"],
     interactions |-> <<Interaction("2024-04-02"), Interaction("2024-01-15")>>,
     ratio |-> 90, partial |-> 70]

OrgQuiet ==
    [id |-> 12, entity_type |-> 0, entity_id |-> 102,
     field_values |-> <<OwnerField>>,
     details |-> [id |-> 102, name |-> "Zed Ventures", domain |-> ""],
     interactions |-> <<>>,
     ratio |-> 60, partial |-> 80]

OrgUnserved ==
    [id |-> 13, entity_type |-> 0, entity_id |-> 103,
     field_values |-> <<>>,
     details |-> NoValue,
     interactions |-> <<Interaction("2024-02-11")>>,
     ratio |-> 0, partial |-> 0]

PersonActive ==
    [id |-> 21, entity_type |-> 1, entity_id |-> 201,
     field_values |-> <<StageField>>,
     details |-> [id |-> 201, first_name |-> "Jane", last_name |-> "Doe",
                  primary_email |-> "jane@doe.example"],
     interactions |-> <<Interaction("2024-03-20"), Interaction("2023-12-01")>>,
     ratio |-> 60, partial |-> 85]

PersonAgain ==
    [id |-> 22, entity_type |-> 1, entity_id |-> 202,
     field_values |-> <<NotesField>>,
     details |-> [id |-> 202, first_name |-> "jane", last_name |-> "DOE",
                  primary_email |-> ""],
     interactions |-> <<Interaction("2024-05-01")>>,
     ratio |-> 60, partial |-> 85]

PersonQuiet ==
    [id |-> 23, entity_type |-> 1, entity_id |-> 203,
     field_values |-> <<>>,
     details |-> [id |-> 203, first_name |-> "John", last_name |-> "Roe",
                  primary_email |-> ""],
     interactions |-> <<>>,
     ratio |-> 0, partial |-> 0]

OpportunityEntry ==
    [id |-> 31, entity_type |-> 8, entity_id |-> 301,
     field_values |-> <<StageField>>,
     details |-> NoValue,
     interactions |-> <<Interaction("2024-04-30")>>,
     ratio |-> 0, partial |-> 0]

EntryPool == {OrgActive, OrgQuiet, OrgUnserved, PersonActive, PersonAgain,
              PersonQuiet, OpportunityEntry}

EntryLists == UNION {[1..n -> EntryPool] : n \in 0..MaxEntries}

\* the state at the call of load_fundraising_list on a new client
LoadInit ==
    /\ \/ lst = NoValue /\ list_entries = <<>>
       \/ lst = [id |-> 7, name |-> "Fundraising"] /\ list_entries \in EntryLists
    /\ li = 1
    /\ lpc = "start"
    /\ NormIdle /\ ExtIdle /\ MainIdle /\ MatchIdle /\ PureIdle

\* `lst = self.get_list_by_name(list_name)`, `if not lst: return`
FindList ==
    /\ lpc = "start"
    /\ lpc' = IF lst = NoValue THEN "loaded" ELSE "loop"
    /\ UNCHANGED <<lst, list_entries, li, normVars, extVars, mainVars, matchVars,
                   pureVars>>

\* one pass of `for entry in entries:`
LoadEntry ==
    /\ lpc = "loop" /\ li <= Len(list_entries)
    /\ LET entry == list_entries[li]
       IN IF entry.entity_type = 0
          THEN /\ organizations' =
                     IF entry.details # NoValue
                     THEN dict_set(organizations, cached_organization(entry).key,
                                   cached_organization(entry))
                     ELSE organizations
               /\ UNCHANGED persons
          ELSE IF entry.entity_type = 1
          THEN /\ persons' =
                     IF entry.details # NoValue
                     THEN dict_set(persons, cached_person(entry).key,
                                   cached_person(entry))
                     ELSE persons
               /\ UNCHANGED organizations
          ELSE UNCHANGED <<organizations, persons>>
    /\ li' = li + 1
    /\ UNCHANGED <<lst, list_entries, lpc, find_match_calls, investor_name, threshold,
                   best_match, best_score, mi, fpc, normVars, extVars, mainVars,
                   pureVars>>

\* the loop is over: load_fundraising_list returns
EndLoad ==
    /\ lpc = "loop" /\ li > Len(list_entries)
    /\ lpc' = "loaded"
    /\ UNCHANGED <<lst, list_entries, li, normVars, extVars, mainVars, matchVars,
                   pureVars>>

\* a call of find_match on the loaded client, up to its first loop
CallFindMatch ==
    /\ lpc = "loaded" /\ fpc = "idle"
    /\ investor_name' = "ACME Capital, LLC"
    /\ threshold' = DefaultThreshold
    /\ best_match' = NoMatch /\ best_score' = 0
    /\ mi' = 1 /\ fpc' = "orgs"
    /\ UNCHANGED <<find_match_calls, organizations, persons, loadVars, normVars,
                   extVars, mainVars, pureVars>>

LoadNext ==
    \/ FindList \/ LoadEntry \/ EndLoad \/ CallFindMatch
    \/ CheckOrganization \/ EndOrganizations \/ CheckPerson \/ ReturnMatch

LoadSpec == LoadInit /\ [][LoadNext]_vars

-----------------------------------------------------------------------------
(* A single call of classify_entity                                         *)

MaxWords == 3

ClassWords == {"Smith", "Foundation", "Family", "Office", "Trust", "LP", "Inc",
               "Alpine"}

\* the names of 1..n words of the pool, separated by one space
RECURSIVE WordNames(_, _)
WordNames(words, n) ==
    IF n = 1 THEN words
    ELSE WordNames(words, n - 1)
         \cup {a \o " " \o w : a \in WordNames(words, n - 1), w \in words}

ClassNames == WordNames(ClassWords, MaxWords)

ClassInit ==
    /\ arg_name \in ClassNames
    /\ arg_cells = <<>>
    /\ arg_page = NoValue
    /\ ret = NoValue
    /\ ppc = "call"
    /\ NormIdle /\ ExtIdle /\ MainIdle /\ MatchIdle /\ LoadIdle

\* `'entity_type': classify_entity(investor_name)`
Classify ==
    /\ ppc = "call"
    /\ ret' = [value |-> classify_entity(arg_name)]
    /\ ppc' = "returned"
    /\ UNCHANGED <<arg_name, arg_cells, arg_page, normVars, extVars, mainVars, matchVars,
            loadVars>>

ClassNext == Classify

ClassSpec == ClassInit /\ [][ClassNext]_vars

-----------------------------------------------------------------------------
(* A single call of is_valid_investor_name                                  *)

MaxParts == 3

NameParts == {"(3)", "*", "All directors", "Item ", " as a group", " M.D.",
              " Nasdaq", "Jane Doe", " LLC", " 5%"}

\* the texts of 1..n parts of the pool, one after the other
RECURSIVE PartNames(_, _)
PartNames(parts, n) ==
    IF n = 1 THEN parts
    ELSE PartNames(parts, n - 1)
         \cup {a \o b : a \in PartNames(parts, n - 1), b \in parts}

\* the validator is called with trimmed names only
ValidNames == {strip(n) : n \in PartNames(NameParts, MaxParts)}

ValidInit ==
    /\ arg_name \in ValidNames
    /\ arg_cells = <<>>
    /\ arg_page = NoValue
    /\ ret = NoValue
    /\ ppc = "call"
    /\ NormIdle /\ ExtIdle /\ MainIdle /\ MatchIdle /\ LoadIdle

\* `if not is_valid_investor_name(clean_name): continue`
Validate ==
    /\ ppc = "call"
    /\ ret' = validator_decision(arg_name)
    /\ ppc' = "returned"
    /\ UNCHANGED <<arg_name, arg_cells, arg_page, normVars, extVars, mainVars, matchVars,
            loadVars>>

ValidNext == Validate

ValidSpec == ValidInit /\ [][ValidNext]_vars

-----------------------------------------------------------------------------
(* A single pass of the field extraction over the cells after the name cell *)

MaxCells == 3

CellPool == {"-", "4.5%", "150%", "99", "1,234,567", " 2,000", ", 500"}

CellRows == UNION {[1..n -> CellPool] : n \in 0..MaxCells}

CellInit ==
    /\ arg_name = "Jane Doe"
    /\ arg_cells \in CellRows
    /\ arg_page = NoValue
    /\ ret = NoValue
    /\ ppc = "call"
    /\ NormIdle /\ ExtIdle /\ MainIdle /\ MatchIdle /\ LoadIdle

\* `stockholder = {'name': name}` and the loop over cells[1:]
ExtractFields ==
    /\ ppc = "call"
    /\ ret' = [value |-> parse_cells([name |-> arg_name], arg_cells)]
    /\ ppc' = "returned"
    /\ UNCHANGED <<arg_name, arg_cells, arg_page, normVars, extVars, mainVars, matchVars,
            loadVars>>

CellNext == ExtractFields

CellSpec == CellInit /\ [][CellNext]_vars

-----------------------------------------------------------------------------
(* A single resolution of the document link on an index page               *)

MaxLinks == 3
MaxFileRows == 2

\* the main document as the index pages list it: the link text is the file name
FileNameLink ==
    [text |-> "d1870000ds1.htm",
     href |-> "/Archives/edgar/data/1870000/000187/d1870000ds1.htm"]

\* the form type occurs in the href only
SubmissionLink ==
    [text |-> "Complete submission", href |-> "/Archives/edgar/data/1870000/000187/s-1.txt"]

\* the form type occurs in the link text, the href is absolute
AmendmentLink ==
    [text |-> "Form S-1/A",
     href |-> "https://www.sec.gov/Archives/edgar/data/1870000/000187/amend.txt"]

AnchorPool == {HomeLink, ArchiveLink, FileNameLink, SubmissionLink, AmendmentLink}

\* a row of the file table: sequence number, description, document, type
FileRow(seq_links, doc_links, type) ==
    <<[text |-> "1", links |-> seq_links],
      [text |-> "Registration statement", links |-> <<>>],
      [text |-> "document", links |-> doc_links],
      [text |-> type, links |-> <<>>]>>

ExhibitLink == [text |-> "ex10.txt", href |-> "/docs/ex10.txt"]
FormLink == [text |-> "forms1.txt", href |-> "/docs/forms1.txt"]
SeqLink == [text |-> "1", href |-> "/docs/seq1.txt"]

FileRowPool == {
    FileRow(<<SeqLink>>, <<ExhibitLink>>, "EX-10.1"),
    FileRow(<<>>, <<ExhibitLink>>, "EX-10.1"),
    FileRow(<<>>, <<FormLink>>, " S-1 "),
    FileRow(<<>>, <<>>, "S-1"),
    SubSeq(FileRow(<<SeqLink>>, <<FormLink>>, ""), 1, 3) }

IndexPages ==
    {[links |-> l, table_file |-> <<>>] :
        l \in UNION {[1..n -> AnchorPool] : n \in 0..MaxLinks}}
    \cup
    {[links |-> l, table_file |-> t] :
        l \in {<<>>, <<HomeLink>>},
        t \in UNION {[1..n -> FileRowPool] : n \in 0..MaxFileRows}}

ResolveInit ==
    /\ arg_name = ""
    /\ arg_cells = <<>>
    /\ arg_page \in IndexPages
    /\ ret = NoValue
    /\ ppc = "call"
    /\ NormIdle /\ ExtIdle /\ MainIdle /\ MatchIdle /\ LoadIdle

\* the resolution of doc_link in parse_stockholders: the scan of the anchors,
\* then, `if not doc_link:`, the scan of the file table
ResolveLink ==
    /\ ppc = "call"
    /\ ret' = [value |-> resolve_doc_link(arg_page),
               scan  |-> IF primary_doc_link(arg_page) # "" THEN "anchors"
                         ELSE IF fallback_doc_link(arg_page) # "" THEN "table"
                         ELSE "none"]
    /\ ppc' = "returned"
    /\ UNCHANGED <<arg_name, arg_cells, arg_page, normVars, extVars, mainVars, matchVars,
            loadVars>>

ResolveNext == ResolveLink

ResolveSpec == ResolveInit /\ [][ResolveNext]_vars

-----------------------------------------------------------------------------
(* Properties                                                               *)

Min(S) == CHOOSE k \in S : \A j \in S : k <= j
Max(S) == CHOOSE k \in S : \A j \in S : k >= j

RECURSIVE names_of(_)
names_of(found) ==
    IF found = <<>> THEN <<>> ELSE <<Head(found).name>> \o names_of(Tail(found))

\* index of the first table of d that qualifies as a stockholder table, 0 when
\* there is none
FirstQualifying(d) ==
    LET q == {i \in 1..Len(d) : TablePass[d[i]].qualifies}
    IN IF q = {} THEN 0 ELSE Min(q)

\* C1: only the first table that qualifies is processed: the loop never goes
\* on to a table after it, and the rows returned are the rows of that table,
\* also when that table yields no record.
C1_OnlyFirstQualifyingTable ==
    FirstQualifying(doc) # 0 =>
        /\ (xpc = "loop" /\ ti <= Len(doc)) => ti <= FirstQualifying(doc)
        /\ xpc = "returned" => stockholders = TablePass[doc[FirstQualifying(doc)]].records

\* C2: no exception leaves the processing of a single filing: main never ends
\* in the handler of __main__, and once the loop is over every filing has
\* been processed.
C2_NoExceptionPastFiling ==
    /\ mpc # "fatal"
    /\ mpc = "done" => fi > Len(filings)

\* a filing whose index fetch or document fetch fails with a transport error,
\* or whose index page has no qualifying document link
SkipCase(f) ==
    /\ f.filing_url # ""
    /\ \/ f.index.raises = "RequestException"
       \/ /\ f.index.raises = "none"
          /\ \/ resolve_doc_link(f.index.page) = ""
             \/ f.document.raises = "RequestException"

SkipCases == {f \in FilingPool : SkipCase(f)}

\* C3: for a filing whose index fetch or document fetch fails with a transport
\* error, or whose index page has no qualifying link, parse_stockholders
\* returns an empty list, no record of that filing is collected, the batch is
\* not aborted at it and the records collected before stay as they are.
C3_TransportFailureSkipsFiling ==
    /\ [](/\ \A j \in 1..Len(filings) : filings[j] \in SkipCases =>
                \A k \in 1..Len(all_investors) :
                    all_investors[k].company_ipo # filings[j].company_name
          /\ (mpc \in {"loop", "fatal"} /\ fi <= Len(filings)
                /\ filings[fi] \in SkipCases) =>
                /\ mpc # "fatal"
                /\ stockholders = <<>>
                /\ xpc \in {"idle", "returned"})
    /\ [][(mpc = "loop" /\ fi <= Len(filings) /\ filings[fi] \in SkipCases) =>
            /\ all_investors' = all_investors
            /\ mpc' = "loop"
            /\ fi' \in {fi, fi + 1}]_vars

\* a skipped filing lies between two filings that yielded records
C3_Witness ==
    /\ mpc = "done"
    /\ all_investors # <<>>
    /\ \E j \in 2..(Len(filings) - 1) :
          /\ filings[j] \in SkipCases
          /\ all_investors[1].company_ipo = filings[j - 1].company_name
          /\ all_investors[Len(all_investors)].company_ipo = filings[j + 1].company_name

\* a shares value is a string of decimal digits whose value exceeds 100
valid_shares(shares) == isdigit(shares) /\ int(shares) > 0 /\ int(shares) > 100

\* C4: every record of extract_stockholder_table, and every investor record
\* main builds from one, has a non-empty name the validator accepts, and its
\* shares, when present, are decimal digits of a value above 100.
C4_RecordsNamedAndCounted ==
    /\ \A k \in 1..Len(stockholders) :
          /\ stockholders[k].name # ""
          /\ is_valid_investor_name(stockholders[k].name)
          /\ "shares" \in DOMAIN stockholders[k] => valid_shares(stockholders[k].shares)
    /\ \A k \in 1..Len(all_investors) :
          /\ all_investors[k].investor_name # ""
          /\ is_valid_investor_name(all_investors[k].investor_name)
          /\ all_investors[k].shares # "" => valid_shares(all_investors[k].shares)

\* main has collected a record with a share count and one without
C4_Witness ==
    /\ mpc = "done"
    /\ \E k \in 1..Len(all_investors) : all_investors[k].shares = "1234567"
    /\ \E k \in 1..Len(all_investors) : all_investors[k].shares = ""

\* the value of a captured percentage lies in [0, 100]
pct_in_range(p) ==
    LET d == Run(p, Digits)
        frac == From(p, d + 2)
    IN \/ int(Sub(p, 1, d)) < 100
       \/ int(Sub(p, 1, d)) = 100 /\ Run(frac, {"0"}) = Len(frac)

\* C5: the ownership percentage of every record, when present, lies in [0, 100].
C5_OwnershipPctInRange ==
    \A k \in 1..Len(stockholders) :
        "ownership_pct" \in DOMAIN stockholders[k] =>
            pct_in_range(stockholders[k].ownership_pct)

\* C6: name normalization is idempotent: normalizing a normalized name
\* changes nothing.
C6_NormalizeIdempotent ==
    Len(nm_hist) >= 2 => nm_hist[2] = nm_hist[1]

\* the cleaned first-cell names of the rows after the header row that have
\* at least min_cells cells and a name the validator accepts, in row order
RECURSIVE accepted_names(_, _)
accepted_names(rows, min_cells) ==
    IF rows = <<>> THEN <<>>
    ELSE (IF Len(Head(rows)) >= min_cells /\ Len(Head(rows)) >= 1
             /\ is_valid_investor_name(normalize(strip(Head(rows)[1])))
          THEN <<normalize(strip(Head(rows)[1]))>> ELSE <<>>)
         \o accepted_names(Tail(rows), min_cells)

data_rows(table) ==
    IF header_row_idx(table.rows) = 0 THEN <<>>
    ELSE SubSeq(table.rows, header_row_idx(table.rows) + 1, Len(table.rows))

\* accepted_names of the data rows of every table of the pool, evaluated once
AcceptedAnyRow == [t \in TablePool |-> accepted_names(data_rows(t), 1)]
AcceptedTwoCells == [t \in TablePool |-> accepted_names(data_rows(t), 2)]

\* the table whose rows the loop has just scanned, when it qualified
ScannedTable ==
    IF xpc = "break" THEN ti
    ELSE IF xpc = "loop" /\ ti > 1 /\ TablePass[doc[ti - 1]].qualifies THEN ti - 1
    ELSE 0

\* C7 as stated: every data row after the header row whose cleaned first-cell
\* name is accepted yields exactly one record, in row order, equal names kept.
C7_EveryAcceptedRowYieldsRecord ==
    ScannedTable # 0 => names_of(stockholders) = AcceptedAnyRow[doc[ScannedTable]]

\* C7 amended: every data row after the header row of a scanned table that has
\* at least two cells and whose cleaned first-cell name is accepted yields
\* exactly one record, in row order, equal names kept, fields parsed or not.
C7_EveryAcceptedTwoCellRowYieldsRecord ==
    ScannedTable # 0 => names_of(stockholders) = AcceptedTwoCells[doc[ScannedTable]]

\* the scan stopped at a table with two rows of the same name and a row
\* without any parsable field
C7_Witness ==
    /\ xpc = "break"
    /\ \E a, b \in 1..Len(stockholders) :
          a < b /\ stockholders[a].name = stockholders[b].name
    /\ \E k \in 1..Len(stockholders) : DOMAIN stockholders[k] = {"name"}

\* C8: once main is done, find_match has been called for the name of every
\* investor record, and in_crm tells whether that call returned a match.
C8_EveryRecordMatched ==
    mpc = "done" =>
        \A k \in 1..Len(all_investors) :
            \E c \in 1..Len(find_match_calls) :
                /\ find_match_calls[c].investor_name = all_investors[k].investor_name
                /\ all_investors[k].in_crm = (find_match_calls[c].result # NoMatch)

\* the entries find_match has scanned so far, organizations first
RECURSIVE candidates(_, _)
candidates(entries, type) ==
    IF entries = <<>> THEN <<>>
    ELSE <<[type |-> type, id |-> Head(entries).id, score |-> entry_score(Head(entries))]>>
         \o candidates(Tail(entries), type)

Scanned ==
    CASE fpc = "orgs" -> candidates(SubSeq(organizations, 1, mi - 1), "organization")
      [] fpc = "persons" -> candidates(organizations, "organization")
                            \o candidates(SubSeq(persons, 1, mi - 1), "person")
      [] OTHER -> candidates(organizations, "organization") \o candidates(persons, "person")

\* C9: a match is the entry of the highest score over both pools, the first
\* of those in iteration order (organizations before persons); at every step
\* of the scan the best so far is the first entry of the highest score so far,
\* so that a later entry replaces it only with a strictly greater score.
C9_BestIsFirstHighest ==
    (fpc # "idle" /\ best_match # NoMatch) =>
        LET c == Scanned
            top == Max({c[k].score : k \in 1..Len(c)})
            first == Min({k \in 1..Len(c) : c[k].score = top})
        IN /\ c # <<>>
           /\ best_match.match_score = top
           /\ best_score = top
           /\ best_match.type = c[first].type
           /\ best_match.affinity_id = c[first].id

\* an organization is returned although a person has the same score
C9_Witness ==
    /\ fpc = "returned"
    /\ best_match.type = "organization"
    /\ \E k \in 1..Len(persons) : entry_score(persons[k]) = best_match.match_score
    /\ \E k \in 1..Len(organizations) :
          entry_score(organizations[k]) < best_match.match_score

\* C10: find_match returns None exactly when no entry of either pool scores at
\* or above the threshold, and a match returned scores at or above it.
C10_NoneIffBelowThreshold ==
    fpc = "returned" =>
        /\ (best_match = NoMatch) <=>
              ~\E k \in 1..Len(Scanned) : Scanned[k].score >= threshold
        /\ best_match # NoMatch => best_match.match_score >= threshold

\* C11: for a fixed roster and name, raising the threshold only removes
\* matches: when find_match returns None at the threshold of the call it
\* returns None at every greater threshold, and when it returns a match it
\* returns the same entry with the same score at every smaller threshold.
C11_ThresholdMonotone ==
    fpc = "returned" =>
        /\ best_match = find_match(organizations, persons, threshold)
        /\ best_match = NoMatch =>
              \A t \in Thresholds :
                  t > threshold => find_match(organizations, persons, t) = NoMatch
        /\ best_match # NoMatch =>
              \A t \in Thresholds :
                  t < threshold => find_match(organizations, persons, t) = best_match

\* a match is returned at the highest threshold although an entry scanned
\* before it qualifies at the smaller thresholds only
C11_Witness ==
    /\ fpc = "returned"
    /\ threshold = Max(Thresholds)
    /\ best_match # NoMatch
    /\ Len(Scanned) >= 2
    /\ Scanned[1].score >= DefaultThreshold
    /\ Scanned[1].score < threshold
    /\ best_match.affinity_id # Scanned[1].id

\* the six tags of an investor record
EntityTags == {"foundation", "family_office", "trust", "fund", "corporate", "unknown"}

\* C12: classify_entity returns one of the six tags for every name, accepted
\* by the validator or not, and never None or another value.
C12_ClassifyTotal ==
    ppc = "returned" => ret.value \in EntityTags

\* a name the validator accepts that has no keyword of any family
C12_Witness ==
    /\ ppc = "returned"
    /\ is_valid_investor_name(arg_name)
    /\ ret.value = "unknown"

\* the keyword families in the order of the claim
KeywordFamilies ==
    <<[tag |-> "foundation", terms |-> {"foundation", "endowment"}],
      [tag |-> "family_office", terms |-> {"family office", "family trust", "family lp"}],
      [tag |-> "trust", terms |-> {"trust", "estate"}],
      [tag |-> "fund", terms |-> {"capital", "partners", "ventures", "fund",
                                  "management", "advisors", "llc", "lp"}],
      [tag |-> "corporate", terms |-> {"inc", "corp", "corporation", "company"}]>>

\* the families that have a keyword occurring in the lower-cased text
FamiliesIn(text) ==
    {i \in 1..Len(KeywordFamilies) :
        \E term \in KeywordFamilies[i].terms : Contains(lower(text), term)}

\* C13: the tag is the tag of the first keyword family, in the fixed order,
\* that has a keyword occurring in the lower-cased name, unknown when none
\* has; a name with "family trust" and no foundation keyword is family_office,
\* a name with "foundation" is foundation.
C13_FirstFamilyWins ==
    ppc = "returned" =>
        /\ ret.value = IF FamiliesIn(arg_name) = {} THEN "unknown"
                       ELSE KeywordFamilies[Min(FamiliesIn(arg_name))].tag
        /\ (Contains(lower(arg_name), "family trust") /\ 1 \notin FamiliesIn(arg_name))
              => ret.value = "family_office"
        /\ Contains(lower(arg_name), "foundation") => ret.value = "foundation"

\* a name with keywords of three families, the first of them decides
C13_Witness ==
    /\ ppc = "returned"
    /\ {2, 3, 4} \subseteq FamiliesIn(arg_name)
    /\ 1 \notin FamiliesIn(arg_name)
    /\ ret.value = "family_office"

\* the name starts, lower-cased and trimmed, with one of the rejected prefixes
has_bad_start(text) ==
    \E start \in bad_starts : startswith(strip(lower(text)), start)

starts_like_footnote(text) == FootnoteLen(text) > 0 \/ At(text, 1) = "*"

C20_FootnoteStartNeverAccepted ==
    (ppc = "returned" /\ starts_like_footnote(arg_name)) => ~ret.value

\* C15: a run with no filing, or in which no filing yields a stockholder, ends
\* by returning an empty list: it raises no error and writes no file.
C15_EmptyRunReturnsEmpty ==
    /\ mpc # "idle" /\ filings = <<>> =>
          /\ mpc \in {"start", "done"}
          /\ files = <<>>
          /\ mpc = "done" => main_return = [value |-> <<>>]
    /\ (mpc \in {"done", "fatal"} /\ all_investors = <<>>) =>
          /\ mpc = "done"
          /\ files = <<>>
          /\ main_return = [value |-> <<>>]

\* the text, lower-cased, of the nearest element with one of the tags among
\* the 5 elements before the table, "" when there is none
nearest_text(table, tags) ==
    LET hits == {i \in 1..Len(table.prev) : i <= 5 /\ table.prev[i].name \in tags}
    IN IF hits = {} THEN "" ELSE lower(table.prev[Min(hits)].text)

\* the text matches one of the five section-header patterns
matches_section(text) == \E pattern \in header_patterns : re_search(pattern, lower(text))

\* conditions (a) and (b) of C16, the elements of (a) being those of the tags
meets_a_or_b(table, tags) ==
    LET own == lower(table_get_text(table.rows))
    IN \/ matches_section(own)
       \/ matches_section(nearest_text(table, tags))
       \/ Contains(own, "beneficial")
            /\ (Contains(own, "shares") \/ Contains(own, "percent"))

\* headings, paragraphs and bold elements
ClaimedTags == {"h1", "h2", "h3", "h4", "p", "b", "strong"}

\* meets_a_or_b of every table of the pool, evaluated once
MeetsAsClaimed == [t \in TablePool |-> meets_a_or_b(t, ClaimedTags)]
MeetsWithDiv == [t \in TablePool |-> meets_a_or_b(t, ClaimedTags \cup {"div"})]

\* C16 as stated: a table of the document is scanned for rows exactly when
\* its own text or the nearest heading, paragraph or bold element within the 5
\* elements before it matches a section pattern, or its text has "beneficial"
\* with "shares" or "percent"; a table meeting neither contributes no record.
C16_ScannedIffQualifies ==
    /\ \A k \in 1..Len(passes) :
          /\ passes[k].qualifies <=> MeetsAsClaimed[doc[k]]
          /\ ~MeetsAsClaimed[doc[k]] => passes[k].records = <<>>
    /\ xpc = "returned" =>
          \A k \in 1..Len(doc) : MeetsAsClaimed[doc[k]] => k <= Len(passes)

\* C16 amended: a table the loop reaches is scanned for rows exactly when its
\* own text or the nearest h1-h4, p, div, b or strong element within the 5
\* elements before it matches a section pattern, or its text has "beneficial"
\* with "shares" or "percent"; a table meeting neither contributes no record.
C16_ReachedTableScannedIffQualifies ==
    \A k \in 1..Len(passes) :
        /\ passes[k].qualifies <=> MeetsWithDiv[doc[k]]
        /\ ~MeetsWithDiv[doc[k]] => passes[k].records = <<>>

\* a table with a div in the way of its heading was passed over, and a table
\* that qualifies by its column wording alone was scanned
C16_Witness ==
    /\ xpc = "returned"
    /\ Len(passes) = 2
    /\ doc[1] = T_divfirst /\ ~passes[1].qualifies
    /\ doc[2] = T_own /\ passes[2].qualifies /\ passes[2].records # <<>>

\* the row text has "name" with "shares" or "percent", or "beneficial owner"
header_wording(row) ==
    LET text == lower(row_get_text(row))
    IN \/ Contains(text, "name") /\ (Contains(text, "shares") \/ Contains(text, "percent"))
       \/ Contains(text, "beneficial owner")

\* the first row of the table with the header wording, 0 when there is none
FirstHeaderRow ==
    [t \in TablePool |->
        LET hits == {i \in 1..Len(t.rows) : header_wording(t.rows[i])}
        IN IF hits = {} THEN 0 ELSE Min(hits)]

\* C17: in a scanned table the header row is the first row with the header
\* wording; every record comes from a row strictly after it, none from the
\* header row or a row before it, and a scanned table without such a row
\* contributes no record.
C17_RecordsOnlyAfterHeaderRow ==
    \A k \in 1..Len(passes) :
        passes[k].qualifies =>
            /\ passes[k].header = FirstHeaderRow[doc[k]]
            /\ Len(passes[k].from_rows) = Len(passes[k].records)
            /\ \A j \in 1..Len(passes[k].from_rows) :
                  passes[k].from_rows[j] > FirstHeaderRow[doc[k]]
            /\ FirstHeaderRow[doc[k]] = 0 => passes[k].records = <<>>

\* a scanned table yields records although the row taken for its header row
\* and a row before it have investor names in their first cells
C17_Witness ==
    \E k \in 1..Len(passes) :
        /\ passes[k].qualifies
        /\ passes[k].header = 2
        /\ passes[k].records # <<>>
        /\ is_valid_investor_name(clean_name(doc[k].rows[1][1]))
        /\ is_valid_investor_name(clean_name(doc[k].rows[2][1]))

\* the first group of digits and commas of the cell, percent signs removed
\* from the cell first and commas from the group after
digit_group(cell) == RemoveChar(share_match(strip(cell)), ",")

\* the cell, percent signs removed, has a digit
has_digit(cell) == any_digit(cell)

\* the group of the cell is a number above 100
group_exceeds_floor(cell) == isdigit(digit_group(cell)) /\ int(digit_group(cell)) > 100

\* C18 as stated: the first cell after the name cell that has a digit group
\* decides the share count: its group when the group exceeds 100, no share
\* count for the row otherwise, later cells not being consulted.
C18_FirstDigitCellDecides ==
    ppc = "returned" =>
        LET cells == {k \in 1..Len(arg_cells) : has_digit(arg_cells[k])}
        IN IF cells # {} /\ group_exceeds_floor(arg_cells[Min(cells)])
           THEN /\ "shares" \in DOMAIN ret.value
                /\ ret.value.shares = digit_group(arg_cells[Min(cells)])
           ELSE "shares" \notin DOMAIN ret.value

\* C18 amended: the share count is the digit group of the first cell after
\* the name cell whose first group of digits and commas, percent signs
\* removed from the cell, is a number above 100; cells whose group does not
\* exceed 100 are passed over, cells after the deciding cell are not
\* consulted, and the share count is unset when no cell has such a group.
C18_FirstCellAboveFloorDecides ==
    ppc = "returned" =>
        LET cells == {k \in 1..Len(arg_cells) : group_exceeds_floor(arg_cells[k])}
        IN IF cells # {}
           THEN /\ "shares" \in DOMAIN ret.value
                /\ ret.value.shares = digit_group(arg_cells[Min(cells)])
           ELSE "shares" \notin DOMAIN ret.value

\* a cell with a small number is passed over, the next cell gives the share
\* count and the cell after it, with another count, is not consulted
C18_Witness ==
    /\ ppc = "returned"
    /\ Len(arg_cells) = 3
    /\ has_digit(arg_cells[1]) /\ ~group_exceeds_floor(arg_cells[1])
    /\ group_exceeds_floor(arg_cells[2]) /\ group_exceeds_floor(arg_cells[3])
    /\ digit_group(arg_cells[2]) # digit_group(arg_cells[3])
    /\ ret.value.shares = digit_group(arg_cells[2])

\* the number of the leftmost percentage pattern of the cell, "" without one:
\* digits, an optional point, optional digits, and "%"
captured_pct(cell) == pct_match(strip(cell))

\* C19: the ownership percentage is the number captured from the first cell
\* after the name cell that has a percentage pattern; a later cell with a
\* percentage never overwrites it, and it is set whether or not a share count
\* was found in the same or an earlier cell.
C19_FirstPercentCellDecides ==
    ppc = "returned" =>
        LET cells == {k \in 1..Len(arg_cells) : captured_pct(arg_cells[k]) # ""}
        IN IF cells # {}
           THEN /\ "ownership_pct" \in DOMAIN ret.value
                /\ ret.value.ownership_pct = captured_pct(arg_cells[Min(cells)])
           ELSE "ownership_pct" \notin DOMAIN ret.value

\* a share count comes from the first cell, the percentage from the second,
\* and the third cell has another percentage
C19_Witness ==
    /\ ppc = "returned"
    /\ Len(arg_cells) = 3
    /\ captured_pct(arg_cells[1]) = ""
    /\ captured_pct(arg_cells[2]) # "" /\ captured_pct(arg_cells[3]) # ""
    /\ captured_pct(arg_cells[2]) # captured_pct(arg_cells[3])
    /\ "shares" \in DOMAIN ret.value
    /\ ret.value.shares = digit_group(arg_cells[1])
    /\ ret.value.ownership_pct = captured_pct(arg_cells[2])

\* C21: a name whose lower-cased form contains one of the section substrings
\* is rejected whatever else it contains, and by the substring check at the
\* latest: no entity keyword, person shape, credential or "as a group" with a
\* digit is looked at for it.
C21_SectionSubstringRejects ==
    (/\ ppc = "returned"
     /\ \E header \in section_headers : Contains(lower(arg_name), header))
        => ~ret.value /\ ret.check <= 4

\* a group row with a digit and a rejected prefix is rejected by the
\* substring check
C21_Witness ==
    /\ ppc = "returned"
    /\ ~ret.value /\ ret.check = 4
    /\ Contains(lower(arg_name), "nasdaq")
    /\ has_bad_start(arg_name)
    /\ Contains(lower(arg_name), "as a group")
    /\ any_digit(arg_name)

\* the href lies under the filing-archive path
under_archive(link) == Contains(link.href, "/Archives/edgar/data/")

\* the link text or the href mentions the form type
mentions_form_type(link) ==
    Contains(lower(link.text), "s-1") \/ Contains(lower(link.href), "s-1")

\* the link text mentions the form type or the href ends in ".htm"
names_form_or_htm(link) ==
    Contains(lower(link.text), "s-1") \/ endswith(link.href, ".htm")

\* the anchors of the page, in document order, that pass the test
anchors_passing(page, test(_)) ==
    {i \in 1..Len(find_all_a(page)) :
        test(find_all_a(page)[i]) /\ under_archive(find_all_a(page)[i])}

\* the primary scan chose the first of the anchors, or nothing when there
\* is none
primary_chose_first_of(hits) ==
    IF hits = {} THEN ret.scan # "anchors"
    ELSE /\ ret.scan = "anchors"
         /\ ret.value = absolute(find_all_a(arg_page)[Min(hits)].href)

\* C22 as stated: the primary scan chooses the first anchor whose text or href
\* mentions the form type and whose href has the archive path segment, and
\* never an anchor that mentions the form type in neither.
C22_FirstFormTypeAnchorChosen ==
    ppc = "returned" =>
        primary_chose_first_of(anchors_passing(arg_page, mentions_form_type))

\* C22 amended: the primary scan chooses the first anchor whose lower-cased
\* text contains "s-1" or whose href ends in ".htm", and whose href has the
\* archive path segment; an anchor failing this is never chosen by it,
\* whether or not its href mentions the form type.
C22_FirstFormOrHtmAnchorChosen ==
    ppc = "returned" =>
        primary_chose_first_of(anchors_passing(arg_page, names_form_or_htm))

\* an anchor with the form type in its href only is passed over and the
\* anchor after it, an .htm file that names no form type, is chosen
C22_Witness ==
    /\ ppc = "returned"
    /\ Len(arg_page.links) >= 2
    /\ arg_page.links[1] = SubmissionLink
    /\ arg_page.links[2] = FileNameLink
    /\ ret.scan = "anchors"
    /\ ret.value = absolute(FileNameLink.href)

\* the type column of a row of the file table mentions the form type
type_mentions_form(cells) == Len(cells) > 3 /\ Contains(cells[4].text, "S-1")

\* C23: when the primary scan finds nothing, the fallback takes the link of
\* the first row of the file table whose type column mentions the form type,
\* even when an earlier row has an anchor, and the link of the first row with
\* an anchor only when no type column mentions the form type.
C23_TypedRowPreferred ==
    (ppc = "returned" /\ ret.scan # "anchors") =>
        LET rows == arg_page.table_file
            usable == {i \in 1..Len(rows) : is_file_row(rows[i])}
            typed == {i \in usable : type_mentions_form(rows[i])}
        IN IF typed # {}
           THEN ret.value = absolute(rows[Min(typed)][3].links[1].href)
           ELSE IF usable # {}
           THEN ret.value = absolute(rows[Min(usable)][3].links[1].href)
           ELSE ret.value = ""

\* the tables of the document whose rows yield a record when scanned
Productive(d) == {k \in 1..Len(d) : TablePass[d[k]].records # <<>>}

cached_entries == {organizations[i] : i \in 1..Len(organizations)}
                  \cup {persons[i] : i \in 1..Len(persons)}

\* the list entry a cached record was built from
entry_of(cached) ==
    CHOOSE e \in EntryPool : e.id = cached.opportunity.entry_id

\* the date of the most recent interaction of an entry's entity
most_recent_date(entry) == entry.interactions[1].date

\* C25: after load_fundraising_list every cached entry, organization or person,
\* whose entity has at least one interaction carries as last_activity the date
\* of its most recent interaction, and a match returned by find_match reports
\* that date.
C25_CachedEntryCarriesLastInteraction ==
    /\ lpc = "loaded" =>
          \A cached \in cached_entries :
              entry_of(cached).interactions # <<>>
                  => cached.opportunity.last_activity
                        = most_recent_date(entry_of(cached))
    /\ (lpc = "loaded" /\ fpc = "returned" /\ best_match # NoMatch) =>
          \A cached \in cached_entries :
              (cached.id = best_match.affinity_id
               /\ entry_of(cached).interactions # <<>>)
                  => best_match.last_activity = most_recent_date(entry_of(cached))

\* the text joined from the first n officers at most, built from the back
RECURSIVE contacts_upto(_, _)
contacts_upto(officers, n) ==
    LET k == IF Len(officers) < n THEN Len(officers) ELSE n
    IN IF k = 0 THEN ""
       ELSE (IF k = 1 THEN "" ELSE contacts_upto(officers, k - 1) \o "; ")
            \o officers[k].name \o " (" \o officers[k].title \o ")"

\* a record with its foundation_contacts left out of the comparison
but_contacts(investor) == [investor EXCEPT !.foundation_contacts = ""]

\* C26: a step of the foundation enrichment in main changes nothing but the
\* foundation_contacts field of records whose entity_type is foundation: a
\* lookup is made only when the enrichment is enabled and only for the name of
\* a foundation record, every non-foundation record and every other field of a
\* foundation record stay as they were, a changed field holds the join of at
\* most the first 5 officers the lookup returned, and no record is added,
\* removed or moved.
C26_EnrichmentOnlyFillsFoundationContacts ==
    [][mpc = "enrich" =>
        /\ Len(all_investors') = Len(all_investors)
        /\ \A i \in 1..Len(all_investors) :
              /\ but_contacts(all_investors'[i]) = but_contacts(all_investors[i])
              /\ all_investors[i].entity_type # "foundation"
                    => all_investors'[i] = all_investors[i]
              /\ all_investors'[i] # all_investors[i] =>
                    /\ lookups' # lookups
                    /\ lookups'[Len(lookups')].foundation_name
                          = all_investors[i].investor_name
                    /\ all_investors'[i].foundation_contacts
                          = contacts_upto(lookups'[Len(lookups')].officers, 5)
        /\ lookups' # lookups =>
              /\ enrich_foundations
              /\ Len(lookups') = Len(lookups) + 1
              /\ \E i \in 1..Len(all_investors) :
                    /\ all_investors[i].entity_type = "foundation"
                    /\ all_investors[i].investor_name
                          = lookups'[Len(lookups')].foundation_name
        /\ ~enrich_foundations => all_investors' = all_investors
    ]_vars

\* the enrichment is over: a foundation record has its contacts, beside a record
\* that is no foundation
C26_Witness ==
    /\ mpc = "save" /\ enrich_foundations /\ lookups # <<>>
    /\ \E i, j \in 1..Len(all_investors) :
          /\ all_investors[i].entity_type = "foundation"
          /\ all_investors[i].foundation_contacts = "ZED FOUNDATION INC (Foundation)"
          /\ all_investors[j].entity_type # "foundation"

====
